---- MODULE Spec2Model ----
(***************************************************************************)
(* A model of the task pipeline of backend/performance/async_pipeline.py   *)
(* (class AsyncPipeline): four priority queues, the worker coroutines, the *)
(* dependency graph, the retry / cancel / stop paths, the completion       *)
(* callbacks and the thread pool that runs the work of the tasks; and a    *)
(* model of the two-level cache of backend/performance/intelligent_cache.py *)
(* (class IntelligentCache): the in-memory entries, the disk files and    *)
(* their index, the statistics, the four eviction strategies, the cleanup  *)
(* and prefetch workers, and the restart of the process over the same      *)
(* disk directory.                                                         *)
(*                                                                         *)
(* The pipeline runs on one asyncio event loop, so the code between two    *)
(* awaits that can suspend is one atomic step.  A worker suspends in three  *)
(* places only: asleep with nothing to do, on `await future` while the     *)
(* work of its task runs, and on `await task.callback(...)` when the       *)
(* callback is a coroutine function.  Each action below is one such        *)
(* atomic stretch.                                                         *)
(***************************************************************************)
EXTENDS Integers, Sequences, FiniteSets, TLC

(* ------------------------------ bounds -------------------------------- *)
MaxTasks == 3      \* task ids are 1..MaxTasks
MaxWorkers == 2    \* config['max_workers']
MaxRetries == 2    \* SpecRetry: max_retries of a task is drawn from 0..MaxRetries
RetryTasks == 2    \* SpecRetry: at most RetryTasks tasks are submitted
FewRetries == 1    \* Spec: max_retries of a task is drawn from 0..FewRetries
MaxDeps == 2       \* a dependency list holds at most MaxDeps ids
ThreadPoolSize == 2   \* config['thread_pool_size']
MaxConcurrent == 1    \* config['max_concurrent_tasks']
MaxKeys == 2       \* cache keys are 1..MaxKeys
MaxSize == 3       \* a cached value pickles to 1..MaxSize bytes
MaxMemoryBytes == 2   \* config['max_memory_mb'], in bytes
MaxTime == 1       \* the clock runs from 0 to MaxTime
MaxAccess == 2     \* an entry is read at most MaxAccess times
MaxGets == 2       \* get is called at most MaxGets times between two clear()
LongTime == 2      \* the clock of the specifications about expiry runs to LongTime
ManyReads == 3     \* an entry is read up to ManyReads times where the disk threshold matters
LruKeys == 3       \* keys of the callers of the LRU cache
LruBytes == 3      \* max_memory_bytes of the LRU cache
ManagerTasks == 4  \* the manager submits at most ManagerTasks tasks
MaxFiles == 3      \* the files of the manager's callers are 1..MaxFiles
MaxCalls == 2      \* the callers call process_file_analysis at most MaxCalls times
MaxSeconds == 1    \* the clock second runs from 0 to MaxSeconds
MaxResult == 2     \* the analyzer returns 0 (a falsy value) or a value of 1..MaxResult bytes

(* ----------------------- TaskPriority (enum) -------------------------- *)
LOW == 1
NORMAL == 2
HIGH == 3
CRITICAL == 4
TaskPriority == {LOW, NORMAL, HIGH, CRITICAL}

(* ------------------------ TaskStatus (enum) --------------------------- *)
PENDING == "pending"
RUNNING == "running"
COMPLETED == "completed"
FAILED == "failed"
CANCELLED == "cancelled"

TaskIds == 1..MaxTasks

\* Dependency lists a caller may pass: lists of distinct ids, length <= MaxDeps.
\* The own id and ids that were never submitted are allowed, as in the code.
DepLists ==
    {s \in UNION {[1..n -> TaskIds] : n \in 0..MaxDeps} :
        \A i, j \in DOMAIN s : i # j => s[i] # s[j]}

VARIABLES
    is_running,            \* self.is_running
    task_queues,           \* self.task_queues: priority -> deque of task ids
    active_tasks,          \* keys of self.active_tasks
    completed_tasks,       \* keys of self.completed_tasks
    task_futures,          \* self.task_futures: id -> state of its future
    tasks,                 \* the PipelineTask objects, by id (NoTask: none yet)
    dependency_graph,      \* self.dependency_graph: id -> list of ids
    reverse_dependencies,  \* self.reverse_dependencies: id -> list of ids
    metrics,               \* self.metrics: the task counters and queue_size
    idle_workers,          \* worker coroutines at the top of their loop (or asleep there)
    hung_threads,          \* threads of self.thread_pool held by work that never returns
    executor_queue,        \* work items of self.thread_pool that wait for a thread (task ids)
    callbacks,             \* history: how many times each task's callback was invoked
    attempts,              \* history: how many times each task's work was started
    queued_at_submit       \* history: ids that submit_task itself put in a queue

VARIABLES
    memory_cache,          \* self.memory_cache: the entries, in the OrderedDict's order
    disk_cache,            \* the files <key>.cache of self.disk_cache_path: key -> blob
    stats,                 \* self.stats: the counters and the hit rate
    strategy,              \* self.strategy
    now,                   \* time.time(), in clock ticks of one hour
    cache_is_running,      \* self.is_running of the cache: its two workers are alive
    prefetch_queue,        \* self.prefetch_queue: keys
    prefetch_callbacks,    \* self.prefetch_callbacks: the patterns registered
    cache_index,           \* the file cache_index.json: whether it exists, and its
                           \* entries, key -> [created_at, ttl]
    last_set,              \* history: value, ttl and time of the latest set of each key,
                           \* and whether the key was deleted since
    max_memory_bytes,      \* self.max_memory_bytes
    use_order              \* history: the keys of memory_cache, the one used last
                           \* (set in memory or read by a get) at the end

VARIABLES
    analysis,              \* the analyzer of the manager's callers: file -> what it returns
    seconds,               \* int(time.time()), the clock second
    calls,                 \* the process_file_analysis calls of the callers, by number
    running,               \* the process_file_analysis coroutines that the workers
                           \* run as the work of batch tasks, by task id
    batch,                 \* the batch_process_files call of the callers
    baseline_metrics,      \* self.baseline_metrics
    current_metrics,       \* self.current_metrics
    task_names             \* the id strings of the tasks that the manager submitted:
                           \* task_names[k] is the string of the pipeline's id k

\* The state of the manager and of its callers.
manager_vars == <<analysis, seconds, calls, running, batch, baseline_metrics,
                  current_metrics, task_names>>

\* The state of the cache and the clock.
cache_vars == <<memory_cache, disk_cache, stats, strategy, now, cache_is_running,
                prefetch_queue, prefetch_callbacks, cache_index, last_set,
                max_memory_bytes, use_order>>

vars == <<is_running, task_queues, active_tasks, completed_tasks, task_futures,
          tasks, dependency_graph, reverse_dependencies, metrics, idle_workers,
          hung_threads, executor_queue, callbacks, attempts, queued_at_submit,
          cache_vars, manager_vars>>

\* The state of the pipeline object itself (everything but the history).
pipeline == <<is_running, task_queues, active_tasks, completed_tasks, task_futures,
              tasks, dependency_graph, reverse_dependencies, metrics>>

NoTask == [id |-> 0]

\* The ids the pipeline knows: submit_task rejects them as duplicates.
Known == active_tasks \cup completed_tasks

\* The worker coroutines differ in their name only, which the code uses in log
\* lines.  A live worker is either at the top of its loop (idle_workers counts
\* these) or in _execute_task awaiting the future of one task: there is one
\* such worker for every key of task_futures.
live_workers == idle_workers + Cardinality(DOMAIN task_futures)

(* ------------------------------ helpers ------------------------------- *)
\* dict[key] = value
Put(f, k, v) == [x \in DOMAIN f \cup {k} |-> IF x = k THEN v ELSE f[x]]

\* del dict[key]
Del(f, k) == [x \in DOMAIN f \ {k} |-> f[x]]

Range(s) == {s[i] : i \in DOMAIN s}

\* list.remove(x): drops the first occurrence of x
RECURSIVE ListRemove(_, _)
ListRemove(s, x) ==
    IF s = <<>> THEN <<>>
    ELSE IF Head(s) = x THEN Tail(s)
    ELSE <<Head(s)>> \o ListRemove(Tail(s), x)

\* What a caller passes as callback: None, a plain function or a coroutine
\* function.
Callbacks == {"none", "sync", "async"}

\* PipelineTask(...) as built by submit_task
PipelineTask(id, priority, max_retries, dependencies, callback) ==
    [id |-> id, priority |-> priority, retry_count |-> 0,
     max_retries |-> max_retries, status |-> PENDING, error |-> "none",
     dependencies |-> dependencies, callback |-> callback]

\* PipelineMetrics(): the fields the pipeline's operations count in.  The
\* gauges (peak_concurrent_tasks, throughput, utilisation, ...) are written
\* and never read by the pipeline; they are left out.
PipelineMetrics ==
    [total_tasks |-> 0, completed_tasks |-> 0, failed_tasks |-> 0, queue_size |-> 0]

(* ---------------------- CacheStrategy, CacheLevel --------------------- *)
LRU == "lru"
LFU == "lfu"
TTL == "ttl"
ADAPTIVE == "adaptive"
CacheStrategy == {LRU, LFU, TTL, ADAPTIVE}

MEMORY == "memory"
DISK == "disk"
CacheLevel == {MEMORY, DISK}

\* A float that is the quotient of two integers.
Fraction(num, den) == [num |-> num, den |-> den]

\* CacheStats(): the hit and miss counters, the byte counter, the entry
\* count and the hit rate (0.0).  The other fields (evictions, the access
\* time, the memory and disk usage) are written and never read by the
\* operations of the cache; they are left out.
CacheStats ==
    [hits |-> 0, misses |-> 0, size_bytes |-> 0, entry_count |-> 0,
     hit_rate |-> Fraction(0, 1)]

\* No file, no value (None).
None == 0

\* No file cache_index.json.
NoIndex == [exists |-> FALSE, entries |-> <<>>]

\* The object that IntelligentCache(config) constructs, with
\* config['strategy'] = s: nothing in memory, no worker, no callback.
cache_object(s) ==
    /\ memory_cache = <<>>
    /\ stats = CacheStats
    /\ strategy = s
    /\ cache_is_running = FALSE
    /\ prefetch_queue = <<>>
    /\ prefetch_callbacks = {}

\* IntelligentCache(config) over a new, empty disk_cache_dir.
\* config['max_memory_mb'] gives max_memory_bytes.
cache_with(s, bytes) ==
    /\ cache_object(s)
    /\ max_memory_bytes = bytes
    /\ disk_cache = <<>>
    /\ cache_index = NoIndex
    /\ now = 0
    /\ last_set = <<>>
    /\ use_order = <<>>

cache_init(s) == cache_with(s, MaxMemoryBytes)

(* ------------------------------- Init --------------------------------- *)
\* AsyncPipeline(config) as constructed; `ids` are the task ids that the
\* callers will use.
pipeline_over(ids) ==
    /\ is_running = FALSE
    /\ task_queues = [p \in TaskPriority |-> <<>>]
    /\ active_tasks = {}
    /\ completed_tasks = {}
    /\ task_futures = <<>>
    /\ tasks = [t \in ids |-> NoTask]
    /\ dependency_graph = <<>>
    /\ reverse_dependencies = <<>>
    /\ metrics = PipelineMetrics
    /\ idle_workers = 0
    /\ hung_threads = 0
    /\ executor_queue = <<>>
    /\ callbacks = [t \in ids |-> 0]
    /\ attempts = [t \in ids |-> 0]
    /\ queued_at_submit = {}

\* No snapshot of the metrics was taken, no batch call was made.
NoSnapshot == [taken |-> FALSE]
NoBatch == [pc |-> "none"]

\* StandalonePerformanceManager(config) as constructed, with callers whose
\* analyzer returns analyzer[file] for a file.
manager_with(analyzer) ==
    /\ analysis = analyzer
    /\ seconds = 0
    /\ calls = <<>>
    /\ running = <<>>
    /\ batch = NoBatch
    /\ baseline_metrics = NoSnapshot
    /\ current_metrics = NoSnapshot
    /\ task_names = <<>>

\* The pipeline of callers who use the ids of TaskIds and call it
\* themselves; the manager is constructed and not used.
pipeline_init == pipeline_over(TaskIds) /\ manager_with(<<>>)

\* The pipeline and a cache with the default strategy.
Init == pipeline_init /\ cache_init(ADAPTIVE)

(* ------------------------------ start() ------------------------------- *)
\* start() returns at once when the pipeline is running; otherwise it sets the
\* flag and spawns max_workers worker coroutines.  The caller awaits stop()
\* before it starts the pipeline again, so no worker of the previous run is
\* alive when the new ones are spawned.
start ==
    /\ ~is_running
    /\ live_workers = 0
    /\ is_running' = TRUE
    /\ idle_workers' = MaxWorkers
    /\ UNCHANGED <<task_queues, active_tasks, completed_tasks, task_futures, tasks,
                   dependency_graph, reverse_dependencies, metrics, hung_threads,
                   executor_queue, callbacks, attempts, queued_at_submit,
                   cache_vars, manager_vars>>

\* _queue_task with appendleft for append.
queue_task_front(queues, task) ==
    [queues EXCEPT ![task.priority] = <<task.id>> \o @]

(* --------------------------- _queue_task() ---------------------------- *)
\* Appends the task to the queue of its priority; the result is the new
\* queues.  The id is a key of active_tasks at every call but submit_task's,
\* which adds it; the callers bump queue_size.
queue_task(queues, task) ==
    [queues EXCEPT ![task.priority] = Append(@, task.id)]

(* --------------------------- submit_task() ---------------------------- *)
\* The test of line 227 asking only for submitted ids: a dependency that was
\* never submitted counts as finished.
FirstUnfinishedKnown(deps) ==
    IF \E i \in DOMAIN deps : deps[i] \in active_tasks
    THEN CHOOSE i \in DOMAIN deps :
            /\ deps[i] \in active_tasks
            /\ \A j \in 1..(i - 1) : deps[j] \notin active_tasks
    ELSE 0

\* Index of the first dependency that is not a key of completed_tasks, 0 if none.
FirstUnfinished(deps) ==
    IF \E i \in DOMAIN deps : deps[i] \notin completed_tasks
    THEN CHOOSE i \in DOMAIN deps :
            /\ deps[i] \notin completed_tasks
            /\ \A j \in 1..(i - 1) : deps[j] \in completed_tasks
    ELSE 0

\* A variant without the duplicate check of line 208.
submit_raises_unchecked(task_id) ==
    IF ~is_running THEN "RuntimeError" ELSE "none"

\* The two checks that open submit_task: what it raises, "none" if it goes on.
submit_raises(task_id) ==
    IF ~is_running THEN "RuntimeError"
    ELSE IF task_id \in active_tasks \/ task_id \in completed_tasks THEN "ValueError"
    ELSE "none"

submit_task(task_id, priority, max_retries, dependencies, callback) ==
    LET task == PipelineTask(task_id, priority, max_retries, dependencies, callback)
        k == FirstUnfinished(dependencies)
    IN
    IF submit_raises(task_id) # "none" THEN
        UNCHANGED vars
    ELSE IF k # 0 THEN
        \* wait for dependencies: one reverse edge, for the first unfinished one
        /\ reverse_dependencies' =
              Put(reverse_dependencies, dependencies[k],
                  IF dependencies[k] \in DOMAIN reverse_dependencies
                  THEN Append(reverse_dependencies[dependencies[k]], task_id)
                  ELSE <<task_id>>)
        /\ dependency_graph' = Put(dependency_graph, task_id, dependencies)
        /\ active_tasks' = active_tasks \cup {task_id}
        /\ tasks' = [tasks EXCEPT ![task_id] = task]
        /\ UNCHANGED <<is_running, task_queues, completed_tasks, task_futures,
                       metrics, idle_workers, hung_threads, executor_queue,
                       callbacks, attempts, queued_at_submit, cache_vars, manager_vars>>
    ELSE
        /\ task_queues' = queue_task(task_queues, task)
        /\ active_tasks' = active_tasks \cup {task_id}
        /\ tasks' = [tasks EXCEPT ![task_id] = task]
        /\ metrics' = [metrics EXCEPT !.queue_size = @ + 1, !.total_tasks = @ + 1]
        /\ queued_at_submit' = queued_at_submit \cup {task_id}
        /\ UNCHANGED <<is_running, completed_tasks, task_futures, dependency_graph,
                       reverse_dependencies, idle_workers, hung_threads,
                       executor_queue, callbacks, attempts, cache_vars, manager_vars>>

\* _get_next_task with NORMAL and HIGH swapped in its list of priorities.
get_next_task_swapped(queues) ==
    IF queues[CRITICAL] # <<>> THEN CRITICAL
    ELSE IF queues[NORMAL] # <<>> THEN NORMAL
    ELSE IF queues[HIGH] # <<>> THEN HIGH
    ELSE IF queues[LOW] # <<>> THEN LOW
    ELSE 0

(* -------------------------- _get_next_task() -------------------------- *)
\* The priority class whose head the worker pops: the first non-empty queue in
\* the order CRITICAL, HIGH, NORMAL, LOW; 0 when every queue is empty (None).
get_next_task(queues) ==
    IF queues[CRITICAL] # <<>> THEN CRITICAL
    ELSE IF queues[HIGH] # <<>> THEN HIGH
    ELSE IF queues[NORMAL] # <<>> THEN NORMAL
    ELSE IF queues[LOW] # <<>> THEN LOW
    ELSE 0

(* ---------------- _worker(): dequeue and start the work --------------- *)
\* One pass of the worker loop up to `await future` in _execute_task: the loop
\* test, _get_next_task (popleft, queue_size -= 1), the semaphore (max_workers
\* permits for max_workers workers: it never blocks), status = RUNNING and the
\* future stored in task_futures.  The work is handed to the thread pool: it
\* starts at once when a thread is free, and waits in the pool's queue
\* otherwise.
busy_threads ==
    hung_threads
    + Cardinality({u \in DOMAIN task_futures :
                      task_futures[u] # "done" /\ u \notin Range(executor_queue)})

worker_take ==
    /\ is_running
    /\ idle_workers > 0
    /\ get_next_task(task_queues) # 0
    /\ LET p == get_next_task(task_queues)
           t == Head(task_queues[p])
       IN /\ task_queues' = [task_queues EXCEPT ![p] = Tail(@)]
          /\ metrics' = [metrics EXCEPT !.queue_size = @ - 1]
          /\ tasks' = [tasks EXCEPT ![t].status = RUNNING]
          /\ task_futures' = Put(task_futures, t, "pending")
          /\ IF busy_threads < ThreadPoolSize
             THEN /\ attempts' = [attempts EXCEPT ![t] = @ + 1]
                  /\ executor_queue' = executor_queue
             ELSE /\ attempts' = attempts
                  /\ executor_queue' = Append(executor_queue, t)
    /\ idle_workers' = idle_workers - 1
    /\ UNCHANGED <<is_running, active_tasks, completed_tasks, dependency_graph,
                   reverse_dependencies, hung_threads, callbacks, queued_at_submit,
                   cache_vars, manager_vars>>

(* ------------------------ _handle_task_failure() ---------------------- *)
\* A variant that compares with `<`: one attempt fewer before FAILED.
handle_task_failure_strict(st, t) ==
    LET rc == st.tasks[t].retry_count + 1
        counted == [st.tasks EXCEPT ![t].retry_count = rc]
    IN IF rc < st.tasks[t].max_retries
       THEN LET again == [counted EXCEPT ![t].status = PENDING]
            IN [tasks |-> again,
                queues |-> [st.queues EXCEPT ![again[t].priority] = Append(@, t)],
                metrics |-> [st.metrics EXCEPT !.queue_size = @ + 1]]
       ELSE [tasks |-> [counted EXCEPT ![t].status = FAILED],
             queues |-> st.queues,
             metrics |-> [st.metrics EXCEPT !.failed_tasks = @ + 1]]

\* st = [tasks, queues, metrics]; the result is st after the call.
handle_task_failure(st, t) ==
    LET rc == st.tasks[t].retry_count + 1
        counted == [st.tasks EXCEPT ![t].retry_count = rc]
    IN IF rc <= st.tasks[t].max_retries
       THEN LET again == [counted EXCEPT ![t].status = PENDING]
            IN [tasks |-> again,
                queues |-> queue_task(st.queues, again[t]),
                metrics |-> [st.metrics EXCEPT !.queue_size = @ + 1]]
       ELSE [tasks |-> [counted EXCEPT ![t].status = FAILED],
             queues |-> st.queues,
             metrics |-> [st.metrics EXCEPT !.failed_tasks = @ + 1]]

(* ----------------------- _process_dependencies() ---------------------- *)
\* The loop over reverse_dependencies[completed_task_id]; `dependents` is the
\* part of that list still to visit, st = [graph, queues, metrics] the state
\* so far, `active` and `objs` the active ids and task objects at the call.
RECURSIVE process_dependents(_, _, _, _, _)
process_dependents(dependents, completed_task_id, st, active, objs) ==
    IF dependents = <<>> THEN st
    ELSE LET d == Head(dependents)
             rest == Tail(dependents)
         IN IF d \notin DOMAIN st.graph
            THEN process_dependents(rest, completed_task_id, st, active, objs)
            ELSE LET left == ListRemove(st.graph[d], completed_task_id)
                 IN IF left # <<>>
                    THEN process_dependents(rest, completed_task_id,
                             [st EXCEPT !.graph = Put(st.graph, d, left)],
                             active, objs)
                    ELSE IF d \in active /\ objs[d].status = PENDING
                    THEN process_dependents(rest, completed_task_id,
                             [graph |-> Del(st.graph, d),
                              queues |-> queue_task(st.queues, objs[d]),
                              metrics |-> [st.metrics EXCEPT !.queue_size = @ + 1]],
                             active, objs)
                    ELSE process_dependents(rest, completed_task_id,
                             [st EXCEPT !.graph = Del(st.graph, d)],
                             active, objs)

process_dependencies(completed_task_id, st, active, objs) ==
    IF completed_task_id \notin DOMAIN reverse_dependencies THEN st
    ELSE process_dependents(reverse_dependencies[completed_task_id],
                            completed_task_id, st, active, objs)

(* --------------- _execute_task(): from `await future` on -------------- *)
\* What `await future` can deliver.  A future that was not cancelled returns
\* the result, raises the work's exception or raises TimeoutError; "hang" is
\* the TimeoutError of work that never returns: its thread is never given
\* back.  After cancel() the await raises CancelledError, unless the work (an
\* opaque callable) does not give way to the cancellation: it may still return
\* a result or raise an exception of its own.  Work that waits in the thread
\* pool's queue can only time out or be cancelled.
Outcomes(t) ==
    IF t \in Range(executor_queue)
    THEN IF task_futures[t] = "pending" THEN {"timeout"} ELSE {"cancelled"}
    ELSE IF task_futures[t] = "pending" THEN {"ok", "error", "timeout", "hang"}
    ELSE {"cancelled", "ok", "error"}

\* The finally block of _execute_task for task t, and the worker's way back to
\* the top of its loop.  `tried` = [tasks, queues, metrics] as the try block
\* and its except clauses left them; `cancelled` tells that CancelledError is
\* on its way out.
finally_block(t, tried, cancelled) ==
    /\ LET terminal == tried.tasks[t].status \in {COMPLETED, FAILED}
           active == IF terminal THEN active_tasks \ {t} ELSE active_tasks
           cleaned == [graph |-> dependency_graph, queues |-> tried.queues,
                       metrics |-> tried.metrics]
           done == IF terminal
                   THEN process_dependencies(t, cleaned, active, tried.tasks)
                   ELSE cleaned
       IN /\ task_futures' = Del(task_futures, t)
          /\ tasks' = tried.tasks
          /\ completed_tasks' = IF terminal THEN completed_tasks \cup {t}
                                ELSE completed_tasks
          /\ active_tasks' = active
          /\ dependency_graph' = done.graph
          /\ task_queues' = done.queues
          /\ metrics' = done.metrics
    \* CancelledError leaves _execute_task and ends the worker's loop (break);
    \* so does the loop test `while self.is_running` once stop() was called
    /\ idle_workers' = IF cancelled \/ ~is_running THEN idle_workers
                       ELSE idle_workers + 1

\* The rest of _execute_task for the worker that awaits the future of t: the
\* try block from `await future` on and its except clauses, then the finally
\* block, unless the worker suspends in the coroutine callback of t.
execute_task_rest(t, outcome) ==
    /\ t \in DOMAIN task_futures
    /\ task_futures[t] # "done"
    /\ outcome \in Outcomes(t)
    \* the thread pool: work that returned gives its thread to the next work
    \* item in the pool's queue; a cancelled or timed-out work item that still
    \* waited there is dropped
    /\ LET waited == t \in Range(executor_queue)
           handover == ~waited /\ outcome # "hang" /\ executor_queue # <<>>
       IN /\ hung_threads' = IF outcome = "hang" THEN hung_threads + 1
                             ELSE hung_threads
          /\ executor_queue' = IF waited THEN ListRemove(executor_queue, t)
                               ELSE IF handover THEN Tail(executor_queue)
                               ELSE executor_queue
          /\ attempts' = IF handover
                         THEN [attempts EXCEPT ![Head(executor_queue)] = @ + 1]
                         ELSE attempts
    /\ IF outcome = "ok" /\ tasks[t].callback = "async"
       THEN \* COMPLETED is recorded and the worker awaits task.callback(result)
            /\ tasks' = [tasks EXCEPT ![t].status = COMPLETED]
            /\ metrics' = [metrics EXCEPT !.completed_tasks = @ + 1]
            /\ task_futures' = [task_futures EXCEPT ![t] = "done"]
            /\ callbacks' = [callbacks EXCEPT ![t] = @ + 1]
            /\ UNCHANGED <<task_queues, active_tasks, completed_tasks,
                           dependency_graph, idle_workers>>
       ELSE LET before == [tasks |-> tasks, queues |-> task_queues,
                           metrics |-> metrics]
                \* the try block and its except clauses
                tried ==
                    CASE outcome = "ok" ->
                           [before EXCEPT !.tasks[t].status = COMPLETED,
                                          !.metrics.completed_tasks = @ + 1]
                      [] outcome \in {"timeout", "hang"} ->
                           handle_task_failure(
                               [before EXCEPT !.tasks[t].error = "TimeoutError"], t)
                      [] outcome = "error" ->
                           handle_task_failure(
                               [before EXCEPT !.tasks[t].error = "WorkError"], t)
                      [] OTHER -> before    \* CancelledError is not caught here
            IN /\ callbacks' = IF outcome = "ok" /\ tasks[t].callback = "sync"
                               THEN [callbacks EXCEPT ![t] = @ + 1]
                               ELSE callbacks
               /\ finally_block(t, tried, outcome = "cancelled")
    /\ UNCHANGED <<is_running, reverse_dependencies, queued_at_submit>>

\* The same for work that is no concern of the cache or of the manager.
execute_task_done(t, outcome) ==
    /\ execute_task_rest(t, outcome)
    /\ UNCHANGED <<cache_vars, manager_vars>>

\* The coroutine callback of t returns (or raises: the exception is logged and
\* dropped); the worker goes on to the finally block.
callback_done(t) ==
    /\ t \in DOMAIN task_futures
    /\ task_futures[t] = "done"
    /\ finally_block(t, [tasks |-> tasks, queues |-> task_queues,
                         metrics |-> metrics], FALSE)
    /\ UNCHANGED <<is_running, reverse_dependencies, hung_threads, executor_queue,
                   callbacks, attempts, queued_at_submit, cache_vars, manager_vars>>

(* ---------------------------- cancel_task() --------------------------- *)
\* A future found in task_futures is not done, unless the worker is in the
\* coroutine callback of the task: otherwise the worker removes it in the same
\* step in which it sees it done.  For any other id, and for a done future,
\* the call returns False and changes nothing.
cancel_task(task_id) ==
    IF task_id \in DOMAIN task_futures /\ task_futures[task_id] # "done"
    THEN /\ task_futures' = [task_futures EXCEPT ![task_id] = "cancelling"]
         /\ tasks' = IF task_id \in active_tasks
                     THEN [tasks EXCEPT ![task_id].status = CANCELLED]
                     ELSE tasks
         /\ UNCHANGED <<is_running, task_queues, active_tasks, completed_tasks,
                        dependency_graph, reverse_dependencies, metrics,
                        idle_workers, hung_threads, executor_queue, callbacks,
                        attempts, queued_at_submit, cache_vars, manager_vars>>
    ELSE UNCHANGED vars

\* wait_for_task reading the task's status (get_task_status) where the code
\* reads completed_tasks.
wait_for_task_by_status(task_id) ==
    IF task_id \in Known /\ tasks[task_id].status = COMPLETED THEN "result"
    ELSE IF task_id \in Known /\ tasks[task_id].status = FAILED
    THEN tasks[task_id].error
    ELSE "sleep"

(* --------------------------- wait_for_task() -------------------------- *)
\* One pass of the polling loop of wait_for_task: the result is returned, the
\* task's error is raised, RuntimeError is raised for any other status found
\* in completed_tasks, or the caller sleeps and polls again ("sleep") until
\* its own timeout.
wait_for_task(task_id) ==
    IF task_id \in completed_tasks
    THEN IF tasks[task_id].status = COMPLETED THEN "result"
         ELSE IF tasks[task_id].status = FAILED THEN tasks[task_id].error
         ELSE "RuntimeError"
    ELSE "sleep"

(* --------------------------- wait_for_all() --------------------------- *)
\* One pass of the polling loop of wait_for_all: the caller sleeps and polls
\* again ("sleep") while active_tasks or a queue holds something, and gets
\* the results of the COMPLETED tasks otherwise.
wait_for_all ==
    IF active_tasks # {} \/ \E p \in TaskPriority : task_queues[p] # <<>>
    THEN "sleep"
    ELSE "results"

(* ------------------------------- stop() ------------------------------- *)
\* stop() returns at once when the pipeline is not running.  Otherwise it
\* clears the flag, cancels every future in task_futures that is not done and
\* marks its task CANCELLED, then awaits the workers.  A worker that is not executing a task
\* wakes from its sleep, fails the loop test `while self.is_running` and ends
\* without touching the pipeline's state: those are counted out here.  A
\* worker awaiting a future ends in execute_task_done.
stop ==
    /\ is_running
    /\ is_running' = FALSE
    /\ task_futures' = [t \in DOMAIN task_futures |->
                            IF task_futures[t] = "done" THEN "done" ELSE "cancelling"]
    /\ tasks' = [t \in DOMAIN tasks |->
                    IF t \in DOMAIN task_futures /\ task_futures[t] # "done"
                    THEN [tasks[t] EXCEPT !.status = CANCELLED]
                    ELSE tasks[t]]
    /\ idle_workers' = 0
    /\ UNCHANGED <<task_queues, active_tasks, completed_tasks, dependency_graph,
                   reverse_dependencies, metrics, hung_threads, executor_queue,
                   callbacks, attempts, queued_at_submit, cache_vars, manager_vars>>

(* ------------------------------- Next --------------------------------- *)
\* Task ids are opaque to the pipeline, so a run is named up to a renaming of
\* ids: the k-th id the pipeline comes to know is called k.  A submit_task call
\* passes a known id (a duplicate) or the next unused one; dependency lists
\* range over all ids, so a task may depend on one submitted later or never.
SubmitIds == Known \cup {t \in TaskIds : t = Cardinality(Known) + 1}

\* The arguments of a submit_task call on id t, drawn from the priorities P,
\* the retry budgets M, the dependency lists D and the callbacks C.  A call
\* that raises reads none of them, so one choice stands for all.
SubmitArgs(t, P, M, D, C) ==
    IF submit_raises(t) = "none" THEN P \X M \X D \X C
    ELSE {<<NORMAL, 0, <<>>, "none">>}

\* A caller submits one of at most N tasks.
Submit(N, P, M, D, C) ==
    \E t \in SubmitIds \cap (1..N) : \E a \in SubmitArgs(t, P, M, D, C) :
        submit_task(t, a[1], a[2], a[3], a[4])

\* One step of the pipeline or of its callers, who submit at most N tasks
\* without callbacks, whose work returns, raises or times out.
Step(N, P, M, D) ==
    \/ start
    \/ stop
    \/ Submit(N, P, M, D, {"none"})
    \/ worker_take
    \/ \E t \in TaskIds, o \in {"ok", "error", "timeout", "cancelled"} :
          execute_task_done(t, o)
    \/ \E t \in TaskIds : cancel_task(t)

\* Tasks of the default priority with dependencies and at most FewRetries retries.
Next == Step(MaxTasks, {NORMAL}, 0..FewRetries, DepLists)

Spec == Init /\ [][Next]_vars

\* Tasks of every priority class, some with one dependency, none retried.
NextPriority ==
    Step(MaxTasks, TaskPriority, {0}, {d \in DepLists : Len(d) <= 1})

SpecPriority == Init /\ [][NextPriority]_vars

\* Tasks without dependencies and with up to MaxRetries retries.
NextRetry == Step(RetryTasks, {NORMAL}, 0..MaxRetries, {<<>>})

SpecRetry == Init /\ [][NextRetry]_vars

\* Tasks without dependencies, with fair workers: an idle worker polls the
\* queues every 0.1 s, and the work of a task returns, raises or times out.
NextFair == Step(RetryTasks, {NORMAL}, 0..FewRetries, {<<>>})

FairSpec ==
    /\ Init /\ [][NextFair]_vars
    /\ WF_vars(worker_take)
    /\ \A t \in TaskIds :
          WF_vars(\E o \in {"ok", "error", "timeout", "cancelled"} : execute_task_done(t, o))

\* Tasks with callbacks of every kind, without dependencies.
NextCallback ==
    \/ Step(RetryTasks, {NORMAL}, 0..FewRetries, {<<>>})
    \/ Submit(RetryTasks, {NORMAL}, 0..FewRetries, {<<>>}, {"sync", "async"})
    \/ \E t \in TaskIds : callback_done(t)

SpecCallback == Init /\ [][NextCallback]_vars

\* Tasks with at most one dependency, on any id (their own, one submitted
\* before or one not submitted yet), not retried, with fair workers.
NextFairDeps == Step(MaxTasks, {NORMAL}, {0}, {d \in DepLists : Len(d) <= 1})

FairDeps ==
    /\ Init /\ [][NextFairDeps]_vars
    /\ WF_vars(worker_take)
    /\ \A t \in TaskIds :
          WF_vars(\E o \in {"ok", "error", "timeout", "cancelled"} : execute_task_done(t, o))

\* A pipeline that is started and left running, with tasks whose work is a
\* plain function run on the thread pool and may never return; the workers
\* are fair as in FairSpec.
NextHang ==
    \/ start
    \/ Submit(MaxTasks, {NORMAL}, 0..FewRetries, {<<>>}, {"none"})
    \/ worker_take
    \/ \E t \in TaskIds, o \in {"ok", "error", "timeout", "hang"} :
          execute_task_done(t, o)

FairHang ==
    /\ Init /\ [][NextHang]_vars
    /\ WF_vars(worker_take)
    /\ \A t \in TaskIds :
          WF_vars(\E o \in {"ok", "error", "timeout", "hang"} : execute_task_done(t, o))

(* ===================== IntelligentCache (the cache) =================== *)
Keys == 1..MaxKeys
Values == 1..MaxSize

\* len(pickle.dumps(value)): a value is named by the number of bytes it
\* pickles to.
pickled_size(value) == value

\* self.max_memory_mb * 1024 * 1024
max_bytes == max_memory_bytes

\* config['default_ttl'] = 3600 s, one clock tick
default_ttl == 1

\* config['enable_disk_cache']
enable_disk_cache == TRUE

\* The cache object as one value: what the private methods below take and
\* give back.
cache == [memory_cache |-> memory_cache, disk_cache |-> disk_cache, stats |-> stats]

\* CacheEntry(key, value, ttl, size_bytes), created now
CacheEntry(key, value, ttl, size_bytes) ==
    [key |-> key, value |-> value, created_at |-> now, accessed_at |-> now,
     access_count |-> 0, ttl |-> ttl, size_bytes |-> size_bytes]

\* CacheEntry.is_expired (ttl is never None: set() puts default_ttl for None)
is_expired(entry) == now - entry.created_at > entry.ttl

\* CacheEntry.touch
touch(entry) == [entry EXCEPT !.accessed_at = now, !.access_count = @ + 1]

\* Position of key in the OrderedDict, 0 when it is not a key.
Position(mc, key) ==
    IF \E i \in DOMAIN mc : mc[i].key = key
    THEN CHOOSE i \in DOMAIN mc : mc[i].key = key
    ELSE 0

\* del memory_cache[key]
Without(mc, key) == SelectSeq(mc, LAMBDA e : e.key # key)

\* _would_exceed_memory_limit
would_exceed_memory_limit(c, additional_bytes) ==
    c.stats.size_bytes + additional_bytes > max_bytes

\* _set_disk: the file of the key is (over)written with a blob created now.
set_disk(c, key, value, ttl) ==
    [c EXCEPT !.disk_cache = Put(@, key, [value |-> value, created_at |-> now,
                                           ttl |-> ttl])]

(* --------------------------- the eviction order ----------------------- *)
Max(S) == CHOOSE x \in S : \A y \in S : y <= x

\* max(e.access_count ...) and max(e.size_bytes ...) over the memory cache
max_access(mc) == Max({mc[i].access_count : i \in DOMAIN mc})
max_size(mc) == Max({mc[i].size_bytes : i \in DOMAIN mc})

\* _evict_adaptive divides by max_access and by entry.ttl while it scores the
\* entries, before it removes any: ZeroDivisionError when no entry was ever
\* read or an entry has ttl 0.
adaptive_raises(mc) ==
    mc # <<>> /\ (max_access(mc) = 0 \/ \E i \in DOMAIN mc : mc[i].ttl = 0)

\* The composite score of _evict_adaptive as the fraction score_num / score_den:
\*   0.4 * 1 / (1 + age / 3600) + 0.3 * access_count / max_access
\*   + 0.2 * (1 - size_bytes / max_size) + 0.1 * remaining_ttl / ttl
\* with the age in clock ticks of 3600 s.
score_num(e, mc) ==
    LET age == now - e.accessed_at
        elapsed == now - e.created_at
        remaining_ttl == IF e.ttl > elapsed THEN e.ttl - elapsed ELSE 0
        ma == max_access(mc)
        ms == max_size(mc)
    IN 4 * ma * ms * e.ttl
       + 3 * e.access_count * (1 + age) * ms * e.ttl
       + 2 * (ms - e.size_bytes) * (1 + age) * ma * e.ttl
       + remaining_ttl * (1 + age) * ma * ms

score_den(e, mc) ==
    10 * (1 + (now - e.accessed_at)) * max_access(mc) * max_size(mc) * e.ttl

\* The sort key of entry a is smaller than that of entry b, under the
\* strategy of the cache; LRU does not sort.
sorts_before(a, b, mc) ==
    CASE strategy = LFU -> a.access_count < b.access_count
      [] strategy = TTL -> a.created_at + a.ttl < b.created_at + b.ttl
      [] strategy = ADAPTIVE ->
             score_num(a, mc) * score_den(b, mc) < score_num(b, mc) * score_den(a, mc)
      [] OTHER -> FALSE

\* sorted(...): Python's sort is stable, entries with equal keys keep the
\* order of the OrderedDict.
\* Entry e put in the sorted list `front`, before the first entry that it
\* sorts before.
insert_sorted(front, e, mc) ==
    LET after == {i \in DOMAIN front : sorts_before(e, front[i], mc)}
        k == IF after = {} THEN Len(front) + 1
             ELSE CHOOSE i \in after : \A j \in after : i <= j
    IN SubSeq(front, 1, k - 1) \o <<e>> \o SubSeq(front, k, Len(front))

RECURSIVE sorted(_, _)
sorted(seq, mc) ==
    IF seq = <<>> THEN <<>>
    ELSE insert_sorted(sorted(SubSeq(seq, 1, Len(seq) - 1), mc), seq[Len(seq)], mc)

\* Whether the eviction writes entry e to disk before it removes it.
saved_to_disk(e, mc) ==
    /\ enable_disk_cache
    /\ CASE strategy \in {LRU, LFU} -> e.access_count > 1
         [] strategy = ADAPTIVE ->
                e.access_count > 2 /\ 10 * score_num(e, mc) > 3 * score_den(e, mc)
         [] OTHER -> FALSE

(* ------- _evict_lru, _evict_lfu, _evict_ttl, _evict_adaptive ---------- *)
\* The loop that the four methods share: the entries of `order` are removed
\* one after the other until the bytes freed reach needed_bytes or the list
\* ends.  mc is the memory cache when the eviction began.
\* One entry is evicted: written to disk when the strategy says so, deleted
\* from the memory cache and taken off the byte counter.
evict_entry(c, entry, mc) ==
    [(IF saved_to_disk(entry, mc)
      THEN set_disk(c, entry.key, entry.value, entry.ttl)
      ELSE c) EXCEPT
        !.memory_cache = Without(@, entry.key),
        !.stats.size_bytes = @ - entry.size_bytes]

RECURSIVE evict_loop(_, _, _, _, _)
evict_loop(c, order, mc, freed_bytes, needed_bytes) ==
    IF order = <<>> THEN c
    ELSE IF freed_bytes + Head(order).size_bytes >= needed_bytes
    THEN evict_entry(c, Head(order), mc)
    ELSE evict_loop(evict_entry(c, Head(order), mc), Tail(order), mc,
                    freed_bytes + Head(order).size_bytes, needed_bytes)

(* --------------------------- _evict_entries() ------------------------- *)
evict_entries(c, needed_bytes) ==
    evict_loop(c, sorted(c.memory_cache, c.memory_cache), c.memory_cache,
               0, needed_bytes)

(* ---------------------------- _set_memory() --------------------------- *)
\* The result is [raised, cache]: whether the call raised (the exception of
\* _evict_adaptive, which leaves the cache as it was) and the cache after it.
\* An entry written over an existing key keeps the key's place in the
\* OrderedDict; a new key goes to the end.
\* The OrderedDict after memory_cache[entry.key] = entry.
assigned(mc, entry) ==
    IF Position(mc, entry.key) # 0
    THEN [mc EXCEPT ![Position(mc, entry.key)] = entry]
    ELSE Append(mc, entry)

\* Lines 278-295: the entry is created and put in the memory cache; the
\* size of the entry it replaces leaves the byte counter and its own size
\* is added.
add_entry(c, entry) ==
    [c EXCEPT
        !.memory_cache = assigned(@, entry),
        !.stats.size_bytes =
            @ - (IF Position(c.memory_cache, entry.key) # 0
                 THEN c.memory_cache[Position(c.memory_cache, entry.key)].size_bytes
                 ELSE 0)
              + entry.size_bytes,
        !.stats.entry_count = Len(assigned(c.memory_cache, entry))]

set_memory(c, key, value, ttl) ==
    IF /\ would_exceed_memory_limit(c, pickled_size(value))
       /\ strategy = ADAPTIVE
       /\ adaptive_raises(c.memory_cache)
    THEN [raised |-> TRUE, cache |-> c]
    ELSE [raised |-> FALSE,
          cache |-> add_entry(IF would_exceed_memory_limit(c, pickled_size(value))
                              THEN evict_entries(c, pickled_size(value))
                              ELSE c,
                              CacheEntry(key, value, ttl, pickled_size(value)))]

\* The history of uses after a call that leaves the memory cache as mc and
\* has used `key` (None: no key): the keys that left the memory cache leave
\* the history, the key used goes to its end.
after_use(order, mc, key) ==
    SelectSeq(order, LAMBDA k : k # key /\ Position(mc, k) # 0)
    \o (IF key # None /\ Position(mc, key) # 0 THEN <<key>> ELSE <<>>)

\* The cache object is replaced by c.
becomes(c) ==
    /\ memory_cache' = c.memory_cache
    /\ disk_cache' = c.disk_cache
    /\ stats' = c.stats

\* What the cache never touches: the pipeline and its history.
pipeline_vars == <<pipeline, idle_workers, hung_threads, executor_queue,
                   callbacks, attempts, queued_at_submit>>

(* -------------------------------- set() ------------------------------- *)
\* SecurityValidator.sanitize_filename(key): neither aura.security nor
\* ..security.simple_validator can be imported from this tree, so the
\* validator is the fallback class of the module, which returns the name
\* as it is.
sanitize_filename(key) == key

\* ttl = NoTtl stands for ttl=None: the default ttl is used.
NoTtl == -1

\* The ttl that set() stores.
ttl_used(ttl) == IF ttl = NoTtl THEN default_ttl ELSE ttl

\* What set() makes of the result of _set_memory.
returned(r) == [ok |-> ~r.raised, cache |-> r.cache]

\* The result of set() is [ok, cache]: the value returned and the cache
\* after the call.  The exception of _evict_adaptive is caught and gives
\* False.
set_result(c, key, value, ttl, level) ==
    IF level = MEMORY
    THEN returned(set_memory(c, sanitize_filename(key), value, ttl_used(ttl)))
    ELSE IF enable_disk_cache
    THEN [ok |-> TRUE,
          cache |-> set_disk(c, sanitize_filename(key), value, ttl_used(ttl))]
    ELSE [ok |-> FALSE, cache |-> c]

\* The history of the sets that returned True.
recorded(hist, ok, key, value, ttl) ==
    IF ok THEN Put(hist, key, [value |-> value, ttl |-> ttl_used(ttl), at |-> now,
                               deleted |-> FALSE])
    ELSE hist

\* The cache and the history after a set(key, value, ttl, level) with
\* result r.
applied(r, key, value, ttl, level) ==
    /\ becomes(r.cache)
    /\ last_set' = recorded(last_set, r.ok, key, value, ttl)
    /\ use_order' = after_use(use_order, r.cache.memory_cache,
                              IF r.ok /\ level = MEMORY THEN sanitize_filename(key)
                              ELSE None)

set(key, value, ttl, level) ==
    /\ applied(set_result(cache, key, value, ttl, level), key, value, ttl, level)
    /\ UNCHANGED <<strategy, max_memory_bytes, now, cache_is_running, prefetch_queue,
                   prefetch_callbacks, cache_index, pipeline_vars, manager_vars>>

(* ---------------------------- _get_from_disk() ------------------------ *)
\* The result is [value, cache]: the value read and the cache after the
\* call, which unlinks an expired file.
get_from_disk(c, key) ==
    IF ~enable_disk_cache \/ key \notin DOMAIN c.disk_cache
    THEN [value |-> None, cache |-> c]
    ELSE IF now - c.disk_cache[key].created_at > c.disk_cache[key].ttl
    THEN [value |-> None, cache |-> [c EXCEPT !.disk_cache = Del(@, key)]]
    ELSE [value |-> c.disk_cache[key].value, cache |-> c]

(* --------------------------- _update_hit_rate() ----------------------- *)
\* hits / total_requests * 100
update_hit_rate(st) ==
    IF st.hits + st.misses > 0
    THEN [st EXCEPT !.hit_rate = Fraction(st.hits * 100, st.hits + st.misses)]
    ELSE st

(* ----------------- _find_related_keys(), _schedule_prefetch() --------- *)
\* The keys 1, 2, .. stand for the strings "user:1", "user:2", ..: a key
\* has six characters and two different keys have the first five in common.
key_len == 6
common_prefix_len(key, cache_key) == IF key = cache_key THEN 6 ELSE 5

\* The keys of the memory cache, in its order.
cache_keys(mc) == [i \in DOMAIN mc |-> mc[i].key]

find_related_keys(mc, key) ==
    SelectSeq(cache_keys(mc),
              LAMBDA cache_key : /\ cache_key # key
                                 /\ 2 * common_prefix_len(key, cache_key) > key_len)

\* The queue after _schedule_prefetch(key): of the first three related keys,
\* those that are not in the memory cache are put in the queue.
schedule_prefetch(queue, mc, key) ==
    LET related == find_related_keys(mc, key)
        first == SubSeq(related, 1, IF Len(related) < 3 THEN Len(related) ELSE 3)
    IN queue \o SelectSeq(first, LAMBDA related_key : Position(mc, related_key) = 0)

(* -------------------------------- get() ------------------------------- *)
\* The result of get(key, default=None) is [value, missed, cache]: the value
\* returned, whether the call took the path of a miss in both levels (which
\* schedules the prefetch), and the cache after the call.
\*  - An expired entry of the memory cache is deleted and counted as a miss,
\*    with no change of the byte counter or of the hit rate; the disk is not
\*    looked at.
\*  - A hit touches the entry and moves it to the end of the OrderedDict.
\*  - A value found on disk is promoted with the default ttl; when the
\*    promotion raises (the exception of _evict_adaptive) get() catches it
\*    and returns the default.
\* Lines 190-214: the key is at place i of the memory cache.
get_from_memory(c, key, i) ==
    IF is_expired(c.memory_cache[i])
    THEN [value |-> None, missed |-> FALSE,
          cache |-> [c EXCEPT !.memory_cache = Without(@, key),
                              !.stats.misses = @ + 1]]
    ELSE [value |-> c.memory_cache[i].value, missed |-> FALSE,
          cache |-> [c EXCEPT
              !.memory_cache = Append(Without(@, key), touch(c.memory_cache[i])),
              !.stats = update_hit_rate([@ EXCEPT !.hits = @ + 1])]]

\* Lines 221-225: the value read from disk and the result of its promotion.
promoted_from_disk(read, promoted) ==
    IF promoted.raised
    THEN [value |-> None, missed |-> FALSE, cache |-> read.cache]
    ELSE [value |-> read.value, missed |-> FALSE,
          cache |-> [promoted.cache EXCEPT
              !.stats = update_hit_rate([@ EXCEPT !.hits = @ + 1])]]

\* Lines 216-235: the key is not in the memory cache; `read` is the result
\* of _get_from_disk.
get_below_memory(read, key) ==
    IF read.value # None
    THEN promoted_from_disk(read, set_memory(read.cache, key, read.value, default_ttl))
    ELSE [value |-> None, missed |-> TRUE,
          cache |-> [read.cache EXCEPT
              !.stats = update_hit_rate([@ EXCEPT !.misses = @ + 1])]]

get_result(c, key) ==
    IF Position(c.memory_cache, sanitize_filename(key)) # 0
    THEN get_from_memory(c, sanitize_filename(key),
                         Position(c.memory_cache, sanitize_filename(key)))
    ELSE get_below_memory(get_from_disk(c, sanitize_filename(key)),
                          sanitize_filename(key))

\* What get(key) returns in this state.
get_value(key) == get_result(cache, key).value

\* The cache and the prefetch queue after a get(key) with result r.
got(r, key) ==
    /\ becomes(r.cache)
    /\ use_order' = after_use(use_order, r.cache.memory_cache,
                              IF r.value # None THEN sanitize_filename(key) ELSE None)
    /\ prefetch_queue' = IF r.missed
                         THEN schedule_prefetch(prefetch_queue, r.cache.memory_cache, key)
                         ELSE prefetch_queue

get(key) ==
    /\ got(get_result(cache, key), key)
    /\ UNCHANGED <<strategy, max_memory_bytes, now, cache_is_running, prefetch_callbacks,
                   cache_index, last_set, pipeline_vars, manager_vars>>

(* ------------------------------- delete() ----------------------------- *)
\* A delete() that leaves the file of the key where it is.
keep_file(dc, key) == dc

\* file_path.unlink() when the file exists
unlink(dc, key) == IF key \in DOMAIN dc THEN Del(dc, key) ELSE dc

delete(k) ==
    LET key == sanitize_filename(k)
        i == Position(memory_cache, key)
        mc == Without(memory_cache, key)
    IN /\ memory_cache' = mc
       /\ stats' = IF i # 0
                   THEN [stats EXCEPT
                            !.size_bytes = @ - memory_cache[i].size_bytes,
                            !.entry_count = Len(mc)]
                   ELSE stats
       /\ disk_cache' = IF enable_disk_cache THEN unlink(disk_cache, key)
                        ELSE disk_cache
       /\ last_set' = IF key \in DOMAIN last_set
                      THEN [last_set EXCEPT ![key].deleted = TRUE]
                      ELSE last_set
       /\ use_order' = after_use(use_order, mc, None)
       /\ UNCHANGED <<strategy, max_memory_bytes, now, cache_is_running, prefetch_queue,
                      prefetch_callbacks, cache_index, pipeline_vars, manager_vars>>

(* -------------------------------- clear() ----------------------------- *)
clear ==
    /\ memory_cache' = <<>>
    /\ stats' = CacheStats
    /\ disk_cache' = IF enable_disk_cache THEN <<>> ELSE disk_cache
    /\ use_order' = <<>>
    /\ UNCHANGED <<strategy, max_memory_bytes, now, cache_is_running, prefetch_queue,
                   prefetch_callbacks, cache_index, last_set, pipeline_vars, manager_vars>>

(* ------------------------------ get_stats() --------------------------- *)
\* The snapshot that get_stats returns: the stats with the entry count
\* brought up to date.
get_stats == [stats EXCEPT !.entry_count = Len(memory_cache)]

(* ---------------- _cleanup_worker(): one round of the loop ------------ *)
\* _cleanup_expired_entries: every expired entry leaves the memory cache and
\* the byte counter.
RECURSIVE expired_bytes(_)
expired_bytes(mc) ==
    IF mc = <<>> THEN 0
    ELSE (IF is_expired(Head(mc)) THEN Head(mc).size_bytes ELSE 0)
         + expired_bytes(Tail(mc))

cleanup_expired_entries ==
    /\ cache_is_running
    /\ memory_cache' = SelectSeq(memory_cache, LAMBDA e : ~is_expired(e))
    /\ stats' = [stats EXCEPT !.size_bytes = @ - expired_bytes(memory_cache)]
    /\ use_order' = after_use(use_order,
                              SelectSeq(memory_cache, LAMBDA e : ~is_expired(e)), None)
    /\ UNCHANGED <<disk_cache, strategy, max_memory_bytes, now, cache_is_running, prefetch_queue,
                   prefetch_callbacks, cache_index, last_set, pipeline_vars, manager_vars>>

(* --------------------- register_prefetch_callback() ------------------- *)
\* The one pattern of the callers: every key begins with it.
Prefix == "user:"

\* `pattern in key`
contains(key, pattern) == pattern = Prefix

\* The value that the registered callback produces for a key.
produced(key) == 1

register_prefetch_callback(pattern) ==
    /\ prefetch_callbacks' = prefetch_callbacks \cup {pattern}
    /\ UNCHANGED <<memory_cache, disk_cache, stats, strategy, max_memory_bytes, now,
                   cache_is_running, prefetch_queue, cache_index, last_set, use_order,
                   pipeline_vars, manager_vars>>

(* --------------- _prefetch_worker(): one round of the loop ------------ *)
\* With nothing in the queue the wait times out and the loop goes round.
\* Otherwise the key at the head is taken and, when a registered pattern
\* occurs in it, the callback is called and its value is set.
prefetch_worker ==
    /\ cache_is_running
    /\ IF prefetch_queue = <<>>
       THEN UNCHANGED <<memory_cache, disk_cache, stats, prefetch_queue, last_set,
                        use_order>>
       ELSE /\ prefetch_queue' = Tail(prefetch_queue)
            /\ IF \E pattern \in prefetch_callbacks :
                      contains(Head(prefetch_queue), pattern)
               THEN applied(set_result(cache, Head(prefetch_queue),
                                       produced(Head(prefetch_queue)), NoTtl, MEMORY),
                            Head(prefetch_queue), produced(Head(prefetch_queue)), NoTtl,
                            MEMORY)
               ELSE UNCHANGED <<memory_cache, disk_cache, stats, last_set, use_order>>
    /\ UNCHANGED <<strategy, max_memory_bytes, now, cache_is_running, prefetch_callbacks,
                   cache_index, pipeline_vars, manager_vars>>

(* --------------------------- start() of the cache --------------------- *)
\* _load_disk_cache_index: a file named by the index is kept when, by the
\* created_at and ttl of the index, its age is less than its ttl, and is
\* unlinked otherwise.
load_disk_cache_index(dc, index) ==
    IF ~index.exists THEN dc
    ELSE LET expired == {key \in DOMAIN index.entries \cap DOMAIN dc :
                            ~(now - index.entries[key].created_at
                                 < index.entries[key].ttl)}
         IN [key \in DOMAIN dc \ expired |-> dc[key]]

cache_start ==
    /\ IF cache_is_running
       THEN UNCHANGED <<cache_is_running, disk_cache>>
       ELSE /\ cache_is_running' = TRUE
            /\ disk_cache' = IF enable_disk_cache
                             THEN load_disk_cache_index(disk_cache, cache_index)
                             ELSE disk_cache
    /\ UNCHANGED <<memory_cache, stats, strategy, max_memory_bytes, now, prefetch_queue,
                   prefetch_callbacks, cache_index, last_set, use_order, pipeline_vars, manager_vars>>

(* ---------------------------- stop() of the cache --------------------- *)
\* _save_disk_cache_index: created_at and ttl of every file <key>.cache
save_disk_cache_index(dc) ==
    [exists |-> TRUE,
     entries |-> [key \in DOMAIN dc |->
                     [created_at |-> dc[key].created_at, ttl |-> dc[key].ttl]]]

cache_stop ==
    /\ IF ~cache_is_running
       THEN UNCHANGED <<cache_is_running, cache_index>>
       ELSE /\ cache_is_running' = FALSE
            /\ cache_index' = IF enable_disk_cache
                              THEN save_disk_cache_index(disk_cache)
                              ELSE cache_index
    /\ UNCHANGED <<memory_cache, disk_cache, stats, strategy, max_memory_bytes, now, prefetch_queue,
                   prefetch_callbacks, last_set, use_order, pipeline_vars, manager_vars>>

(* ------------------------- a restart of the process ------------------- *)
\* The process of a stopped cache ends and a new one constructs
\* IntelligentCache(config) over the same disk_cache_dir: the files and the
\* index are what they were, the object is new.
new_process ==
    /\ ~cache_is_running
    /\ memory_cache' = <<>>
    /\ stats' = CacheStats
    /\ prefetch_queue' = <<>>
    /\ prefetch_callbacks' = {}
    /\ use_order' = <<>>
    /\ UNCHANGED <<disk_cache, strategy, max_memory_bytes, now, cache_is_running, cache_index,
                   last_set, pipeline_vars, manager_vars>>

(* --------------------------------- time ------------------------------- *)
\* time.time() moves on by one tick, up to `until`.
advance(until) ==
    /\ now < until
    /\ now' = now + 1
    /\ UNCHANGED <<memory_cache, disk_cache, stats, strategy, max_memory_bytes, cache_is_running,
                   prefetch_queue, prefetch_callbacks, cache_index, last_set, use_order,
                   pipeline_vars, manager_vars>>

tick == advance(MaxTime)

(* ------------------------- the cache's callers ------------------------ *)
\* A cache of any strategy, and its callers.
cache_spec_init == pipeline_init /\ \E s \in CacheStrategy : cache_init(s)

\* The callers call get at most `gets` times between two clear(), and read
\* an entry of the memory cache at most `reads` times.
may_get(key, reads, gets) ==
    LET i == Position(memory_cache, key)
    IN /\ stats.hits + stats.misses < gets
       /\ (i # 0 /\ ~is_expired(memory_cache[i]))
             => memory_cache[i].access_count < reads

\* One step of the cache's callers or of the clock: the callers set values
\* of V with a ttl of T at a level of L on the keys of K, and get, delete
\* and clear.
CacheCalls(K, V, T, L, reads, gets, until) ==
    \/ \E key \in K, value \in V, ttl \in T, level \in L :
          set(key, value, ttl, level)
    \/ \E key \in K : may_get(key, reads, gets) /\ get(key)
    \/ \E key \in K : delete(key)
    \/ clear
    \/ advance(until)

CacheStep(V, T, L) == CacheCalls(Keys, V, T, L, MaxAccess, MaxGets, MaxTime)

\* Values of every size, up to one larger than the memory limit, set in the
\* memory cache with ttl 0 or the default ttl.
NextCache == CacheStep(Values, {0, NoTtl}, {MEMORY})

SpecCache == cache_spec_init /\ [][NextCache]_vars

\* Values that fit the memory limit, set in the memory cache or on disk
\* with the default ttl.
NextLevels ==
    CacheCalls(Keys, 1..MaxMemoryBytes, {NoTtl}, CacheLevel, MaxAccess, MaxGets, MaxTime)

SpecLevels == cache_spec_init /\ [][NextLevels]_vars

\* Values that fit the memory limit, set in the memory cache with the
\* default ttl, while the clock runs past the ttl.
NextExpiry ==
    CacheCalls(Keys, 1..MaxMemoryBytes, {NoTtl}, {MEMORY}, MaxAccess, MaxGets, LongTime)

SpecExpiry == cache_spec_init /\ [][NextExpiry]_vars

\* A cache in service: it is started and stopped, its process restarts, its
\* two workers run, a prefetch callback is registered for the prefix of the
\* keys, and the callers set a value of one byte with the default ttl on
\* one key, in memory or on disk.
NextService ==
    \/ cache_start
    \/ cache_stop
    \/ new_process
    \/ cleanup_expired_entries
    \/ prefetch_worker
    \/ register_prefetch_callback(Prefix)
    \/ CacheCalls({1}, {1}, {NoTtl}, CacheLevel, MaxAccess, MaxGets, LongTime)

\* The cache in service evicts the least recently used entries.
service_init == pipeline_init /\ cache_init(LRU)

SpecService == service_init /\ [][NextService]_vars

\* A started cache with a prefetch callback: the callers set values of one
\* byte on every key and get, while the prefetch worker runs.
NextPrefetch ==
    \/ cache_start
    \/ register_prefetch_callback(Prefix)
    \/ prefetch_worker
    \/ CacheCalls(Keys, {1}, {NoTtl}, {MEMORY}, MaxAccess, MaxGets, MaxTime)

SpecPrefetch == service_init /\ [][NextPrefetch]_vars

\* Values that fit the memory limit, set in the memory cache with the
\* default ttl, and entries read up to ManyReads times.
NextReads ==
    CacheCalls(Keys, 1..MaxMemoryBytes, {NoTtl}, {MEMORY}, ManyReads, ManyReads, MaxTime)

SpecReads == cache_spec_init /\ [][NextReads]_vars

\* A cache that evicts the least recently used entries, with room for
\* LruBytes entries of one byte: the callers set and get LruKeys keys in the
\* memory cache with the default ttl, and the clock stands still, so that
\* an entry leaves the memory cache by eviction only.
lru_init == pipeline_init /\ cache_with(LRU, LruBytes)

NextLru ==
    \/ \E key \in 1..LruKeys : set(key, 1, NoTtl, MEMORY)
    \/ \E key \in 1..LruKeys : may_get(key, MaxAccess, MaxGets) /\ get(key)

SpecLru == lru_init /\ [][NextLru]_vars

(* =================== StandalonePerformanceManager ==================== *)
\* The manager is constructed with the defaults of its settings, but for
\* max_workers, thread_pool_size and cache_max_memory_mb, which are the
\* bounds MaxWorkers, ThreadPoolSize and MaxMemoryBytes.
ManagerIds == 1..ManagerTasks
Files == 1..MaxFiles
Results == 0..MaxResult

\* max_retries of submit_task when the caller passes none
DefaultRetries == 3

\* ttl=3600 of the set in process_file_analysis: one clock tick of the cache
AnalysisTtl == 1

\* Path(file_path).stem: the files 1 and 2 are a/x.py and b/x.py, file 3 is
\* y.py.
stem(file) == (file + 1) \div 2

\* f"analysis_{file_path}": the cache key of a file is named by the file.
cache_key(file) == file

\* `if cached_result:` and `if ... and result:`: None, 0, '', {} and [] are
\* falsy; the value 0 stands for all of them.
truthy(value) == value # 0

\* f"analyze_{stem}_{int(time.time())}" and f"batch_{i}_{stem}_{int(time.time())}"
analyze_name(file) ==
    [kind |-> "analyze", i |-> 0, stem |-> stem(file), second |-> seconds]

batch_name(i, file) ==
    [kind |-> "batch", i |-> i, stem |-> stem(file), second |-> seconds]

\* The part of the pipeline that submit_task reads and writes, with the
\* strings of the ids.
pipeline_state ==
    [queues |-> task_queues, active |-> active_tasks, tasks |-> tasks,
     metrics |-> metrics, submitted |-> queued_at_submit, names |-> task_names]

\* submit_task(name, ...) without dependencies raises nothing: the task
\* gets the next id, is queued and counted.
submitted_task(st, name, priority) ==
    [queues |-> queue_task(st.queues,
                           PipelineTask(Len(st.names) + 1, priority, DefaultRetries,
                                        <<>>, "none")),
     active |-> st.active \cup {Len(st.names) + 1},
     tasks |-> [st.tasks EXCEPT ![Len(st.names) + 1] =
                   PipelineTask(Len(st.names) + 1, priority, DefaultRetries,
                                <<>>, "none")],
     metrics |-> [st.metrics EXCEPT !.queue_size = @ + 1, !.total_tasks = @ + 1],
     submitted |-> st.submitted \cup {Len(st.names) + 1},
     names |-> Append(st.names, name)]

\* What submit_task(name, ...) raises: the strings of task_names are the
\* keys of active_tasks and completed_tasks.
name_raises(st, name) ==
    IF ~is_running THEN "RuntimeError"
    ELSE IF name \in Range(st.names) THEN "ValueError"
    ELSE "none"

\* The pipeline becomes st.
accepted(st) ==
    /\ task_queues' = st.queues
    /\ active_tasks' = st.active
    /\ tasks' = st.tasks
    /\ metrics' = st.metrics
    /\ queued_at_submit' = st.submitted
    /\ task_names' = st.names

\* What submit_task leaves alone, and what get and set leave alone.
pipeline_rest == <<is_running, completed_tasks, task_futures, dependency_graph,
                   reverse_dependencies, idle_workers, hung_threads,
                   executor_queue, callbacks, attempts>>

cache_rest == <<strategy, max_memory_bytes, now, cache_is_running,
                prefetch_callbacks, cache_index>>

(* ------------------------------ initialize() -------------------------- *)
\* The pipeline is constructed and started, the cache is constructed and
\* started, and the two prefetch patterns are registered.
initialize ==
    /\ ~is_running /\ ~cache_is_running
    /\ is_running' = TRUE
    /\ idle_workers' = MaxWorkers
    /\ cache_is_running' = TRUE
    /\ disk_cache' = IF enable_disk_cache
                     THEN load_disk_cache_index(disk_cache, cache_index)
                     ELSE disk_cache
    /\ prefetch_callbacks' = {"analysis_", "generation_"}
    /\ UNCHANGED <<task_queues, active_tasks, completed_tasks, task_futures, tasks,
                   dependency_graph, reverse_dependencies, metrics, hung_threads,
                   executor_queue, callbacks, attempts, queued_at_submit,
                   memory_cache, stats, strategy, max_memory_bytes, now,
                   prefetch_queue, cache_index, last_set, use_order, manager_vars>>

(* ------------------------ process_file_analysis() --------------------- *)
\* A call is [file, pc, task, result]: it waits for the task it submitted
\* ("waiting"), has returned its result ("returned") or has raised the
\* exception named by its result ("raised").  A call runs without
\* suspension until it sleeps in wait_for_task: cache.get and submit_task
\* await nothing that suspends.
\* Lines 146-158: the cache gave nothing; the task is submitted.
missed(st, file) ==
    IF name_raises(st, analyze_name(file)) # "none"
    THEN [call |-> [file |-> file, pc |-> "raised", task |-> 0,
                    result |-> name_raises(st, analyze_name(file))],
          st |-> st]
    ELSE [call |-> [file |-> file, pc |-> "waiting", task |-> Len(st.names) + 1,
                    result |-> None],
          st |-> submitted_task(st, analyze_name(file), NORMAL)]

\* Lines 137-158: r is the result of cache.get(cache_key).
entered(r, st, file) ==
    IF truthy(r.value)
    THEN [call |-> [file |-> file, pc |-> "returned", task |-> 0, result |-> r.value],
          st |-> st]
    ELSE missed(st, file)

\* What a process_file_analysis(file) that began now would do up to its
\* first suspension.
process_outcome(file) ==
    entered(get_result(cache, cache_key(file)), pipeline_state, file).call

\* Lines 158-164, after the sleep: `polled` is what wait_for_task gives.
\* The result of the task is what the analyzer returns for the file.
woken(call, polled) ==
    IF polled = "result"
    THEN [call EXCEPT !.pc = "returned", !.result = analysis[call.file]]
    ELSE [call EXCEPT !.pc = "raised", !.result = polled]

\* The cache after the call woke up as `call`: a truthy result is set with
\* ttl=3600.
cached(call) ==
    IF call.pc = "returned" /\ truthy(call.result)
    THEN /\ applied(set_result(cache, cache_key(call.file), call.result,
                               AnalysisTtl, MEMORY),
                    cache_key(call.file), call.result, AnalysisTtl, MEMORY)
    ELSE UNCHANGED <<memory_cache, disk_cache, stats, last_set, use_order>>

\* A caller calls process_file_analysis(file, analyzer) of the initialized
\* manager.
process_file_analysis(file) ==
    /\ is_running /\ cache_is_running
    /\ Len(calls) < MaxCalls
    /\ Len(task_names) < ManagerTasks
    /\ got(get_result(cache, cache_key(file)), cache_key(file))
    /\ accepted(entered(get_result(cache, cache_key(file)), pipeline_state, file).st)
    /\ calls' = Append(calls, process_outcome(file))
    /\ UNCHANGED <<pipeline_rest, cache_rest, last_set, analysis, seconds, running,
                   batch, baseline_metrics, current_metrics>>

\* The call number c wakes from its sleep in wait_for_task and finds its
\* task in completed_tasks.
process_wakes(c) ==
    /\ c \in DOMAIN calls
    /\ calls[c].pc = "waiting"
    /\ wait_for_task(calls[c].task) # "sleep"
    /\ cached(woken(calls[c], wait_for_task(calls[c].task)))
    /\ calls' = [calls EXCEPT ![c] = woken(calls[c], wait_for_task(calls[c].task))]
    /\ UNCHANGED <<pipeline, idle_workers, hung_threads, executor_queue, callbacks,
                   attempts, queued_at_submit, cache_rest, prefetch_queue, analysis,
                   seconds, running, batch, baseline_metrics, current_metrics,
                   task_names>>

(* --------------------------------- time ------------------------------- *)
\* int(time.time()) moves on by one.
next_second ==
    /\ seconds < MaxSeconds
    /\ seconds' = seconds + 1
    /\ UNCHANGED <<pipeline_vars, cache_vars, analysis, calls, running, batch,
                   baseline_metrics, current_metrics, task_names>>

(* ------------------------ the manager's callers ----------------------- *)
\* The manager after construction, with one of the analyzers, each a
\* function from files to what it returns for the file.
manager_init(analyzers) ==
    /\ pipeline_over(ManagerIds)
    /\ cache_with(ADAPTIVE, MaxMemoryBytes)
    /\ \E analyzer \in analyzers : manager_with(analyzer)

\* The callers call process_file_analysis on the two files of the same
\* stem; the analyzer returns or raises.
NextProcess ==
    \/ initialize
    \/ \E file \in {1, 2} : process_file_analysis(file)
    \/ \E c \in 1..MaxCalls : process_wakes(c)
    \/ worker_take
    \/ \E t \in ManagerIds, o \in {"ok", "error"} : execute_task_done(t, o)
    \/ next_second

SpecProcess == manager_init([{1, 2} -> 0..1]) /\ [][NextProcess]_vars

(* ------------------------- batch_process_files() ---------------------- *)
\* The loop of lines 188-201 from the i-th file on: st is the pipeline so
\* far, ids the task ids so far.  The result is [st, task_ids, raised]; a
\* submit_task that raises ends the loop and the call.
RECURSIVE submit_all(_, _, _, _)
submit_all(st, file_paths, i, ids) ==
    IF i > Len(file_paths)
    THEN [st |-> st, task_ids |-> ids, raised |-> "none"]
    ELSE IF name_raises(st, batch_name(i - 1, file_paths[i])) # "none"
    THEN [st |-> st, task_ids |-> ids,
          raised |-> name_raises(st, batch_name(i - 1, file_paths[i]))]
    ELSE submit_all(submitted_task(st, batch_name(i - 1, file_paths[i]), NORMAL),
                    file_paths, i + 1, Append(ids, Len(st.names) + 1))

\* The batch call after its submissions, `sent`: it polls for its first
\* task, or has raised.  `finished` is history: the batch tasks in the order
\* in which they come into completed_tasks.
polling(file_paths, sent) ==
    [pc |-> IF sent.raised = "none" THEN "polling" ELSE "raised",
     file_paths |-> file_paths, task_ids |-> sent.task_ids, results |-> <<>>,
     error |-> sent.raised, finished |-> <<>>]

\* A caller calls batch_process_files(file_paths, analyzer) of the
\* initialized manager.  The loop that submits has no suspension.
batch_process_files(file_paths) ==
    /\ is_running /\ cache_is_running
    /\ batch.pc = "none"
    /\ Len(task_names) + Len(file_paths) <= ManagerTasks
    /\ accepted(submit_all(pipeline_state, file_paths, 1, <<>>).st)
    /\ batch' = polling(file_paths, submit_all(pipeline_state, file_paths, 1, <<>>))
    /\ UNCHANGED <<pipeline_rest, cache_vars, analysis, seconds, calls, running,
                   baseline_metrics, current_metrics>>

\* A variant that puts the result in front of the list, as a list kept in
\* the order of completion would for a task that finished late.
gathered_in_front(results, value) == <<value>> \o results

\* results.append(result)
gathered(results, value) == Append(results, value)

\* The loop of lines 204-209, resumed after a sleep: b is the call so far.
\* wait_for_task returns at once, without a sleep, for a task that is in
\* completed_tasks, and the result of a batch task is what its coroutine
\* returned.
RECURSIVE collected(_)
collected(b) ==
    IF Len(b.results) = Len(b.task_ids) THEN [b EXCEPT !.pc = "returned"]
    ELSE IF wait_for_task(b.task_ids[Len(b.results) + 1]) = "sleep" THEN b
    ELSE IF wait_for_task(b.task_ids[Len(b.results) + 1]) = "result"
    THEN collected([b EXCEPT !.results =
                        gathered(@, running[b.task_ids[Len(b.results) + 1]].result)])
    ELSE [b EXCEPT !.pc = "raised",
                   !.error = wait_for_task(b.task_ids[Len(b.results) + 1])]

\* The batch call wakes from its sleep in wait_for_task and finds the task
\* it waits for in completed_tasks.
batch_wakes ==
    /\ batch.pc = "polling"
    /\ collected(batch) # batch
    /\ batch' = collected(batch)
    /\ UNCHANGED <<pipeline_vars, cache_vars, analysis, seconds, calls, running,
                   baseline_metrics, current_metrics, task_names>>

(* ------------- process_file_analysis as the work of a batch task ------ *)
\* The task t is the i-th task of the batch call.
is_batch(t) == t \in DOMAIN task_names /\ task_names[t].kind = "batch"
is_analyze(t) == t \in DOMAIN task_names /\ task_names[t].kind = "analyze"

\* args[0] of the batch task t
file_of(t) == batch.file_paths[task_names[t].i + 1]

\* The coroutine of the attempt of t that a worker has begun was not run
\* yet.
not_begun(t) ==
    /\ t \in DOMAIN task_futures
    /\ task_futures[t] = "pending"
    /\ is_batch(t)
    /\ t \in DOMAIN running => running[t].pc = "ended"

\* The coroutine of the batch task t runs until its first suspension; the
\* second in which it began is kept with it.
task_begins(t) ==
    /\ not_begun(t)
    /\ Len(entered(get_result(cache, cache_key(file_of(t))), pipeline_state,
                   file_of(t)).st.names) <= ManagerTasks
    /\ got(get_result(cache, cache_key(file_of(t))), cache_key(file_of(t)))
    /\ accepted(entered(get_result(cache, cache_key(file_of(t))), pipeline_state,
                        file_of(t)).st)
    /\ running' = Put(running, t, process_outcome(file_of(t)) @@ [began |-> seconds])
    /\ UNCHANGED <<pipeline_rest, cache_rest, last_set, analysis, seconds, calls,
                   batch, baseline_metrics, current_metrics>>

\* The coroutine of the batch task t wakes from its sleep in wait_for_task.
task_wakes(t) ==
    /\ t \in DOMAIN running
    /\ running[t].pc = "waiting"
    /\ wait_for_task(running[t].task) # "sleep"
    /\ cached(woken(running[t], wait_for_task(running[t].task)))
    /\ running' = [running EXCEPT ![t] = woken(running[t], wait_for_task(running[t].task))]
    /\ UNCHANGED <<pipeline, idle_workers, hung_threads, executor_queue, callbacks,
                   attempts, queued_at_submit, cache_rest, prefetch_queue, analysis,
                   seconds, calls, batch, baseline_metrics, current_metrics,
                   task_names>>

\* What `await future` delivers to the worker of the batch task t: the
\* value the coroutine returned, the exception it raised, or, while it
\* waits and the clock has moved on since it began, the TimeoutError of
\* wait_for (timeout=30.0), which cancels the coroutine.
delivered(t) ==
    CASE running[t].pc = "returned" -> {"ok"}
      [] running[t].pc = "raised" -> {"error"}
      [] running[t].pc = "waiting" /\ seconds > running[t].began -> {"timeout"}
      [] OTHER -> {}

\* The worker of the batch task t goes on after `await future`.
batch_task_done(t) ==
    /\ t \in DOMAIN running
    /\ running[t].pc # "ended"
    /\ \E outcome \in delivered(t) : execute_task_rest(t, outcome)
    /\ running' = [running EXCEPT ![t].pc = "ended"]
    /\ batch' = IF t \in completed_tasks' THEN [batch EXCEPT !.finished = Append(@, t)]
                ELSE batch
    /\ UNCHANGED <<cache_vars, analysis, seconds, calls, baseline_metrics,
                   current_metrics, task_names>>

\* A caller calls batch_process_files once, on two files of one stem or of
\* two stems; the analyzer returns or raises.  (A future that is pending
\* counts as a busy pool thread in worker_take although a coroutine needs
\* none: with as many pool threads as workers no work ever waits for one.)
NextBatch ==
    \/ initialize
    \/ \E file_paths \in {<<1, 2>>, <<1, 3>>} : batch_process_files(file_paths)
    \/ batch_wakes
    \/ worker_take
    \/ \E t \in ManagerIds : task_begins(t)
    \/ \E t \in ManagerIds : task_wakes(t)
    \/ \E t \in ManagerIds : batch_task_done(t)
    \/ \E t \in ManagerIds, o \in {"ok", "error"} :
          is_analyze(t) /\ execute_task_done(t, o)
    \/ next_second

SpecBatch == manager_init([Files -> 1..MaxResult]) /\ [][NextBatch]_vars

(* ----------------------- get_performance_metrics() ------------------- *)
\* AsyncPipeline.get_metrics(): queue_size is brought up to date and the
\* pipeline's own PipelineMetrics object is returned.
get_metrics ==
    [metrics EXCEPT !.queue_size =
        Len(task_queues[CRITICAL]) + Len(task_queues[HIGH])
        + Len(task_queues[NORMAL]) + Len(task_queues[LOW])]

\* pipeline_improvement * cache_improvement.  The throughput of the
\* baseline and the current throughput are read from one and the same
\* PipelineMetrics object, so pipeline_improvement is 1.0 (also when the
\* throughput is 0); cache_improvement is 1 + hit_rate / 100.  Without a
\* baseline the factor keeps its default 1.0.
performance_improvement_factor ==
    IF baseline_metrics.taken
    THEN Fraction(100 * stats.hit_rate.den + stats.hit_rate.num,
                  100 * stats.hit_rate.den)
    ELSE Fraction(1, 1)

\* The PerformanceMetrics object that get_performance_metrics builds.  Its
\* field pipeline_metrics refers to self.metrics of the pipeline: the
\* object, not a copy of it.  The numbers are copied.
PerformanceMetrics ==
    [taken |-> TRUE, timestamp |-> seconds, pipeline_metrics |-> "self.metrics",
     total_tasks_processed |-> metrics.total_tasks,
     cache_hit_rate |-> stats.hit_rate,
     cache_memory_usage |-> stats.size_bytes,
     performance_improvement_factor |-> performance_improvement_factor]

\* What a reader of snapshot.pipeline_metrics sees in this state.
pipeline_metrics_of(snapshot) == metrics

get_performance_metrics ==
    /\ is_running /\ cache_is_running
    /\ metrics' = get_metrics
    /\ stats' = get_stats
    /\ current_metrics' = PerformanceMetrics
    /\ UNCHANGED <<is_running, task_queues, active_tasks, completed_tasks,
                   task_futures, tasks, dependency_graph, reverse_dependencies,
                   idle_workers, hung_threads, executor_queue, callbacks, attempts,
                   queued_at_submit, memory_cache, disk_cache, cache_rest,
                   prefetch_queue, last_set, use_order, analysis, seconds, calls,
                   running, batch, baseline_metrics, task_names>>

(* ------------------------ set_baseline_metrics() ---------------------- *)
set_baseline_metrics ==
    /\ is_running /\ cache_is_running
    /\ metrics' = get_metrics
    /\ stats' = get_stats
    /\ current_metrics' = PerformanceMetrics
    /\ baseline_metrics' = PerformanceMetrics
    /\ UNCHANGED <<is_running, task_queues, active_tasks, completed_tasks,
                   task_futures, tasks, dependency_graph, reverse_dependencies,
                   idle_workers, hung_threads, executor_queue, callbacks, attempts,
                   queued_at_submit, memory_cache, disk_cache, cache_rest,
                   prefetch_queue, last_set, use_order, analysis, seconds, calls,
                   running, batch, task_names>>

\* The callers of process_file_analysis, with an analyzer that returns a
\* truthy value, take snapshots of the metrics and set the baseline.
NextMetrics ==
    \/ NextProcess
    \/ get_performance_metrics
    \/ set_baseline_metrics

SpecMetrics == manager_init([{1, 2} -> {1}]) /\ [][NextMetrics]_vars

(* ======================== the claims, C1 .. ========================== *)
Terminal == {COMPLETED, FAILED, CANCELLED}

\* The number of positions, over the four queues, that hold task t.
QueueCount(t) ==
    Cardinality({<<p, i>> \in TaskPriority \X (1..MaxTasks + 1) :
                    i \in DOMAIN task_queues[p] /\ task_queues[p][i] = t})

\* In how many of the four places task t is: pending on its dependencies,
\* a queue position, in flight, the completed map.
Places(t) ==
    (IF t \in DOMAIN dependency_graph THEN 1 ELSE 0) + QueueCount(t)
    + (IF t \in DOMAIN task_futures THEN 1 ELSE 0)
    + (IF t \in completed_tasks THEN 1 ELSE 0)

\* C1: every task id that submit_task accepted is in exactly one of the
\* pending-on-dependencies set, one position of one priority queue, the
\* in-flight set and the completed map.
C1_ExactlyOnePlace == \A t \in Known : Places(t) = 1

\* C2: a task whose status is COMPLETED, FAILED or CANCELLED keeps that status
\* for good, enters no queue and is not executed again.
C2_TerminalIsFinal ==
    [][\A t \in Known :
          tasks[t].status \in Terminal =>
              /\ tasks'[t].status = tasks[t].status
              /\ QueueCount(t)' <= QueueCount(t)
              /\ attempts'[t] = attempts[t]]_vars

\* A worker dequeues task t in this step (its future appears in task_futures).
Dequeued(t) == t \notin DOMAIN task_futures /\ t \in DOMAIN task_futures'

\* C3: whenever a worker dequeues a task, no queue of a strictly higher
\* priority class holds a task.
C3_StrictPriority ==
    [][\A t \in Known :
          Dequeued(t) =>
              \A p \in TaskPriority : p > tasks[t].priority => task_queues[p] = <<>>]_vars

\* C3, scenario S1: tasks 1, 2, 3 were submitted LOW, NORMAL, HIGH in that order
\* and task 3 is the one that was dequeued, with 1 and 2 still in their queues.
C3_Witness ==
    /\ Known = {1, 2, 3}
    /\ tasks[1].priority = LOW /\ tasks[2].priority = NORMAL /\ tasks[3].priority = HIGH
    /\ 3 \in DOMAIN task_futures /\ attempts[3] = 1
    /\ task_queues[LOW] = <<1>> /\ task_queues[NORMAL] = <<2>>
    /\ attempts[1] = 0 /\ attempts[2] = 0

\* C4 (as claimed): when a task is dequeued for its first execution, every task
\* of its class that was submitted before it has been dequeued already.  Ids
\* are numbered in submission order.
C4_SubmitOrder ==
    [][\A t \in Known :
          Dequeued(t) /\ attempts[t] = 0 =>
              \A u \in Known :
                  u < t /\ tasks[u].priority = tasks[t].priority => attempts[u] > 0]_vars

\* C4 (amended): the same, for the tasks that submit_task queued itself, i.e.
\* those with no unfinished dependency when they were submitted.
C4_SubmitOrderOfQueued ==
    [][\A t \in queued_at_submit :
          Dequeued(t) /\ attempts[t] = 0 =>
              \A u \in queued_at_submit :
                  u < t /\ tasks[u].priority = tasks[t].priority => attempts[u] > 0]_vars

\* C4: two tasks of one class queued at submit and a third of that class that
\* waited on a dependency; the second is dequeued after the first.
C4_Witness ==
    /\ Known = {1, 2, 3}
    /\ tasks[1].priority = tasks[2].priority /\ tasks[2].priority = tasks[3].priority
    /\ queued_at_submit = {1, 3}
    /\ attempts[1] = 1 /\ 3 \in DOMAIN task_futures /\ attempts[3] = 1
    /\ 2 \in DOMAIN dependency_graph

\* Dependency d of some task has reached COMPLETED.
DepCompleted(d) == d \in completed_tasks /\ tasks[d].status = COMPLETED

\* Dependency d of some task has ended FAILED or CANCELLED.
DepFailed(d) ==
    \/ d \in completed_tasks /\ tasks[d].status = FAILED
    \/ d \in active_tasks /\ tasks[d].status = CANCELLED /\ d \notin DOMAIN task_futures

\* C5: the work of a task has started only if every id in its dependency list
\* has reached COMPLETED (so in a chain the completions follow the chain).
C5_RunsAfterDependencies ==
    \A t \in Known :
        attempts[t] > 0 => \A d \in Range(tasks[t].dependencies) : DepCompleted(d)

\* C6: no task stays pending on its dependencies once all of them have reached
\* COMPLETED; it is promoted to the queue of its class in the step in which
\* the last one completes, or queued at submit.
C6_PromotedOnceDependenciesComplete ==
    \A t \in DOMAIN dependency_graph :
        \E d \in Range(tasks[t].dependencies) : ~DepCompleted(d)

\* C7: a task with a dependency that ended FAILED or CANCELLED is FAILED with
\* error DependencyFailed, and its work was never started.
C7_DependencyFailurePropagates ==
    \A t \in Known :
        (\E d \in Range(tasks[t].dependencies) : DepFailed(d)) =>
            /\ tasks[t].status = FAILED
            /\ tasks[t].error = "DependencyFailed"
            /\ attempts[t] = 0

\* C8: while the pipeline is running, every accepted task reaches a terminal
\* state and wait_for_task on its id returns that outcome (with fair workers
\* and work that returns or times out).
C8_EventuallyAwaited ==
    \A t \in TaskIds :
        (t \in Known) ~> (wait_for_task(t) # "sleep" \/ ~is_running)

SubmitChangesNothing(t) ==
    \A p \in {NORMAL}, m \in 0..FewRetries, d \in DepLists :
        ~ENABLED (submit_task(t, p, m, d, "none") /\ pipeline' # pipeline)

\* C10 as stated: submit_task of a known id raises the duplicate-id error
\* (ValueError) and changes nothing.
C10_DuplicateRejected ==
    \A t \in Known : submit_raises(t) = "ValueError" /\ SubmitChangesNothing(t)

\* C10, amended: submit_task of a known id is rejected and changes nothing;
\* the error is the duplicate-id error while the pipeline is running, and
\* RuntimeError (pipeline not running) once it is stopped.
C10_DuplicateRejectedWhileRunning ==
    \A t \in Known :
        /\ submit_raises(t) = IF is_running THEN "ValueError" ELSE "RuntimeError"
        /\ SubmitChangesNothing(t)

\* A running pipeline that knows one id pending on a dependency, one running
\* and one in the completed set.
C10_Witness ==
    /\ is_running
    /\ \E a, b, c \in Known :
        /\ a \in DOMAIN dependency_graph
        /\ b \in DOMAIN task_futures
        /\ c \in completed_tasks

\* The ids that task t waits for, directly or through other waiting tasks: the
\* closure of the lists recorded in dependency_graph.
RECURSIVE DependencyClosure(_, _)
DependencyClosure(ids, n) ==
    IF n = 0 THEN ids
    ELSE DependencyClosure(
             ids \cup UNION {Range(dependency_graph[u]) :
                                u \in ids \cap DOMAIN dependency_graph}, n - 1)

WaitsFor(t) == DependencyClosure(Range(dependency_graph[t]), MaxTasks)

\* C11: no task is recorded as pending on a dependency list that holds its own
\* id or closes a cycle through tasks recorded in the dependency graph: such a
\* submit_task is rejected (CyclicDependency).
C11_NoCyclicDependencyRecorded ==
    \A t \in DOMAIN dependency_graph : t \notin WaitsFor(t)

\* cancel_task(t) ends with t CANCELLED and in no queue.
CancelTakesEffect(t) ==
    ENABLED (cancel_task(t) /\ tasks'[t].status = CANCELLED /\ QueueCount(t)' = 0)

\* C12: cancel_task on a task that is pending on its dependencies or waiting
\* in a priority queue marks it CANCELLED and takes it out of its queue (so
\* that no worker dequeues it afterwards).
C12_CancelOfWaitingTask ==
    \A t \in Known :
        (t \in DOMAIN dependency_graph \/ QueueCount(t) > 0) => CancelTakesEffect(t)

\* C13: once the cancellation of a task has taken effect (the task is
\* CANCELLED and its work is over), wait_for_task on its id returns.
C13_AwaitOfCancelledReturns ==
    \A t \in TaskIds :
        (t \in Known /\ tasks[t].status = CANCELLED /\ t \notin DOMAIN task_futures)
            ~> (wait_for_task(t) # "sleep")

\* The terminal state of t is recorded and nothing of t is left to run.
Settled(t) ==
    /\ tasks[t].status \in Terminal
    /\ t \notin DOMAIN task_futures
    /\ QueueCount(t) = 0

\* C14: the callback of a task that has one is invoked exactly once, with the
\* terminal state (COMPLETED, FAILED or CANCELLED) recorded: once the task is
\* settled the callback has run once, and before that it has not run.
C14_CallbackExactlyOnce ==
    \A t \in Known :
        tasks[t].callback # "none" =>
            /\ callbacks[t] <= 1
            /\ Settled(t) => callbacks[t] = 1
            /\ tasks[t].status \notin Terminal => callbacks[t] = 0

C16_RunningAtMostMaxConcurrent ==
    Cardinality({t \in Known : tasks[t].status = RUNNING}) <= MaxConcurrent

\* C17: work that never returns does not keep the pipeline from executing
\* the other tasks: the work of every queued task is eventually started
\* (and the task with the hung work ends FAILED with a timeout).
C17_HungWorkBlocksNoTask ==
    \A t \in TaskIds :
        /\ (QueueCount(t) > 0) ~> (attempts[t] > 0)
        /\ (t \in Known) ~> (t \in completed_tasks)

\* C18: wait_for_all returns exactly when no task is pending on dependencies,
\* queued or in flight; in particular it returns once every submitted task
\* has reached a terminal state.
C18_AwaitAllExactlyWhenIdle ==
    (wait_for_all = "results") <=>
        /\ dependency_graph = <<>>
        /\ \A p \in TaskPriority : task_queues[p] = <<>>
        /\ task_futures = <<>>

\* Task t was submitted with one dependency, on the id d that had not been
\* submitted then (ids are numbered in the order of their submission).
ChildBeforeParent(t, d) ==
    t \in Known /\ tasks[t].dependencies = <<d>> /\ d > t

\* Task t is pending on its dependencies: not queued, not executed, not failed.
StaysPending(t) ==
    /\ t \in DOMAIN dependency_graph
    /\ tasks[t].status = PENDING
    /\ attempts[t] = 0
    /\ QueueCount(t) = 0

RECURSIVE hot_bytes(_)
hot_bytes(mc) ==
    IF mc = <<>> THEN 0 ELSE Head(mc).size_bytes + hot_bytes(Tail(mc))

\* C20: after every set(key, value, ttl, level = MEMORY), the sizes of the
\* entries in the memory cache sum to at most the memory limit, whatever
\* the size of the value and the eviction strategy.
C20_HotBytesWithinBudget ==
    [][(\E key \in Keys, value \in Values, ttl \in {0, NoTtl} :
           set(key, value, ttl, MEMORY))
          => hot_bytes(memory_cache') <= max_bytes]_vars

\* C21: when set(key, value, ttl, level) returns True, at either level and
\* whatever the two levels held for the key, a get(key) that follows at once
\* returns the value.
C21_GetAfterSet ==
    [][\A key \in Keys, value \in 1..MaxMemoryBytes, level \in CacheLevel :
          (set(key, value, NoTtl, level)
           /\ set_result(cache, key, value, NoTtl, level).ok)
             => get_value(key)' = value]_vars

\* C22: get(key) returns the default (a miss) or the value of the latest
\* set of the key that returned True, never an older value.
C22_GetNeverReturnsOlderValue ==
    \A key \in Keys :
        \/ get_value(key) = None
        \/ key \in DOMAIN last_set /\ get_value(key) = last_set[key].value

\* The key is in neither level.
Absent(key) == Position(memory_cache, key) = 0 /\ key \notin DOMAIN disk_cache

\* The key was set and then deleted, with no set of the key since.
Deleted(key) == key \in DOMAIN last_set /\ last_set[key].deleted

\* C23: delete(key) makes the byte counter smaller by the size of the entry
\* it removes from memory; and from the delete(key) until the next set of
\* the key, the key is in neither the memory cache nor the disk cache and
\* get(key) returns the default.
C23_DeleteRemovesFromBothLevels ==
    /\ [][\A key \in Keys :
             delete(key) =>
                stats'.size_bytes = stats.size_bytes
                   - (IF Position(memory_cache, key) # 0
                      THEN memory_cache[Position(memory_cache, key)].size_bytes
                      ELSE 0)]_vars
    /\ [](\A key \in Keys :
             Deleted(key) => Absent(key) /\ get_value(key) = None)

\* A key has been deleted while the other key is still in memory, after a
\* read.
C23_Witness ==
    \E key \in Keys :
        /\ Deleted(key)
        /\ memory_cache # <<>>
        /\ stats.hits > 0

\* C24: a value written by set(key, value, ttl) at time t0 with a ttl above
\* zero, and not written again, is not returned by get(key) at a time later
\* than t0 + ttl, whatever evictions and promotions there were.
C24_ExpiryFixedAtWrite ==
    \A key \in DOMAIN last_set :
        (last_set[key].ttl > 0 /\ get_value(key) = last_set[key].value)
            => now <= last_set[key].at + last_set[key].ttl

\* C25: in every state the byte counter of the stats is the sum of the sizes
\* of the entries in the memory cache.
C25_ByteCounterIsSumOfSizes == stats.size_bytes = hot_bytes(memory_cache)

\* C26: once get has been called, the hit rate of the snapshot that
\* get_stats returns is hits / (hits + misses) of the same snapshot (as a
\* percentage, which is how _update_hit_rate scales it).
C26_HitRateMatchesCounters ==
    LET snapshot == get_stats
        total == snapshot.hits + snapshot.misses
    IN total > 0 =>
          snapshot.hit_rate.num * total = 100 * snapshot.hits * snapshot.hit_rate.den

\* A callback is registered for a pattern that occurs in the key.
Registered(key) == \E pattern \in prefetch_callbacks : contains(key, pattern)

\* C27: with a prefetch callback registered for the prefix of the key, a
\* get(key) that misses in both levels puts the key in the prefetch queue
\* (from which the prefetch worker takes it, calls the callback and sets the
\* value it produced).
C27_MissQueuesKeyForPrefetch ==
    [][\A key \in Keys :
          (get(key) /\ get_result(cache, key).missed /\ Registered(key)
           /\ cache_is_running)
             => \E i \in DOMAIN prefetch_queue' : prefetch_queue'[i] = key]_vars

\* Nothing is ever put in the prefetch queue.
PrefetchQueueStaysEmpty == prefetch_queue = <<>>

\* C28: an entry written with ttl = 0 does not expire by time: when the
\* clock moves on and nothing else happens, get(key) returns the value that
\* it returned before.
C28_ZeroTtlNeverExpires ==
    [][\A key \in Keys :
          LET i == Position(memory_cache, key)
          IN (/\ advance(MaxTime)
              /\ i # 0
              /\ memory_cache[i].ttl = 0
              /\ get_value(key) = memory_cache[i].value)
                => get_value(key)' = memory_cache[i].value]_vars

\* What get(key) returns in a new process that has constructed the cache
\* over the disk directory of this state and has called start().
get_after_restart(key) ==
    get_result([memory_cache |-> <<>>,
                disk_cache |-> load_disk_cache_index(disk_cache, cache_index),
                stats |-> CacheStats],
               key).value

\* C29: a value that get(key) returns when stop() is called on a running
\* cache is returned by get(key) after a restart of the process and start()
\* over the same disk directory, at the same time (the ttl has not elapsed).
C29_ValueSurvivesRestart ==
    [][(cache_stop /\ cache_is_running)
          => \A key \in Keys :
                get_value(key) # None => get_after_restart(key)' = get_value(key)]_vars

\* The step is a set or a get of another key, and the entry of the key
\* leaves the memory cache in it: the entry is evicted.
Evicted(key) ==
    /\ Position(memory_cache, key) # 0
    /\ Position(memory_cache', key) = 0
    /\ \E other \in Keys \ {key} :
          \/ \E value \in Values, ttl \in {0, NoTtl} : set(other, value, ttl, MEMORY)
          \/ get(other)

\* C30: with the disk cache enabled, under every strategy, when an entry
\* that was read more than twice and is not expired is evicted from the
\* memory cache, its value has been written to disk: a get of the key that
\* follows returns the value.
C30_EvictionDemotesReadEntries ==
    [][\A key \in Keys :
          LET i == Position(memory_cache, key)
          IN (/\ enable_disk_cache
              /\ Evicted(key)
              /\ memory_cache[i].access_count > 2
              /\ ~is_expired(memory_cache[i]))
                => get_value(key)' = memory_cache[i].value]_vars

\* C35: when a task ends FAILED after a retry, the error recorded on it (the
\* one wait_for_task raises) is the error of its first failed attempt.  A
\* task with retry_count 1 that is not FAILED has failed exactly once, and
\* its error is the error of that attempt: the step that makes it FAILED
\* leaves the error as it is.
C35_FirstErrorIsReported ==
    [][\A t \in TaskIds :
          (/\ tasks[t] # NoTask
           /\ tasks[t].retry_count = 1
           /\ tasks[t].status # FAILED
           /\ tasks'[t].status = FAILED)
          => /\ tasks'[t].error = tasks[t].error
             /\ wait_for_task(t)' = tasks[t].error]_vars

\* The tasks that wait for dependencies: the keys of dependency_graph.
Waiting == DOMAIN dependency_graph

\* The ids registered under d in reverse_dependencies.
Dependents(d) ==
    IF d \in DOMAIN reverse_dependencies THEN Range(reverse_dependencies[d]) ELSE {}

\* C36: in every reachable state the reverse index agrees with the forward
\* edges: a task that waits is registered under every id of its list of
\* unresolved dependencies, and a task registered under d that still waits
\* has d in that list.
C36_ReverseIndexAgrees ==
    /\ \A t \in Waiting : \A d \in Range(dependency_graph[t]) : t \in Dependents(d)
    /\ \A d \in TaskIds : \A t \in Dependents(d) \cap Waiting :
          d \in Range(dependency_graph[t])

\* C38: cancelling a running task does not end the worker that executes it:
\* while the pipeline runs, it has max_workers live workers.
C38_CancelKeepsWorkers ==
    is_running => live_workers = MaxWorkers

\* C39: at most one execution of a task's work is in progress at any time:
\* no retry attempt is started while a timed-out attempt of the same task
\* still runs in the thread pool.  With one task submitted, every busy
\* thread of the pool runs the work of that task.
C39_OneExecutionPerTask ==
    \A t \in TaskIds : Known = {t} => busy_threads <= 1

\* The keys of the entries of a memory cache.
hot(mc) == {mc[i].key : i \in DOMAIN mc}

\* The place of a key in the history of uses (0: not there); a later place
\* is a more recent use.
UsePosition(key) ==
    IF \E i \in DOMAIN use_order : use_order[i] = key
    THEN CHOOSE i \in DOMAIN use_order : use_order[i] = key
    ELSE 0

\* C31: under LRU, the entries that a set evicts are the least recently used
\* ones: every entry that stays in the memory cache, other than the key that
\* the call itself has just used, was used more recently than every entry
\* that the call evicted.
C31_EvictsLeastRecentlyUsed ==
    [][\A evicted \in hot(memory_cache) \ hot(memory_cache') :
          \A kept \in hot(memory_cache') :
              kept # use_order'[Len(use_order')]
              => UsePosition(evicted) < UsePosition(kept)]_vars

\* C32: when a process_file_analysis call returns a result v that it got
\* from the pipeline (a miss), a call on the same file that follows at once
\* returns v from the cache: it submits no task and executes no work,
\* whatever value v the analyzer returns.
C32_ResultIsCached ==
    [][\A c \in DOMAIN calls :
          (calls[c].pc = "waiting" /\ calls'[c].pc = "returned")
          => /\ process_outcome(calls[c].file)'.pc = "returned"
             /\ process_outcome(calls[c].file)'.result = calls'[c].result
             /\ process_outcome(calls[c].file)'.task = 0]_vars

\* C40: no process_file_analysis call fails with the duplicate-id error of
\* submit_task.
C40_NoDuplicateTaskId ==
    \A c \in DOMAIN calls :
        ~(calls[c].pc = "raised" /\ calls[c].result = "ValueError")

\* C34: a snapshot of the metrics is a copy: what set_baseline_metrics
\* captured does not change afterwards.  The number of tasks that a reader
\* finds in the pipeline metrics of the baseline is the number that held at
\* the capture, which the baseline holds as total_tasks_processed.
C34_BaselineIsACopy ==
    baseline_metrics.taken
    => pipeline_metrics_of(baseline_metrics).total_tasks
          = baseline_metrics.total_tasks_processed

\* The batch tasks whose worker awaits a coroutine that sleeps in
\* wait_for_task.
Held == {t \in DOMAIN running : /\ running[t].pc = "waiting"
                                /\ t \in DOMAIN task_futures
                                /\ task_futures[t] = "pending"}

in_queue(t) == \E p \in TaskPriority : t \in Range(task_queues[p])

\* C37: the batch tasks never hold every worker of the pipeline while the
\* inner tasks they wait for are all still in a queue (a state that no step
\* but the 30 s timeout of a batch task leaves).
C37_WorkersNotAllHeld ==
    ~(/\ Cardinality(Held) = MaxWorkers
      /\ \A t \in Held : in_queue(running[t].task))

\* C33: the list that batch_process_files returns is as long as file_paths,
\* and its i-th value is what the analyzer returns for the i-th file, in
\* whatever order the batch tasks were completed.
C33_ResultsInInputOrder ==
    batch.pc = "returned" =>
        /\ Len(batch.results) = Len(batch.file_paths)
        /\ \A i \in DOMAIN batch.file_paths :
              batch.results[i] = analysis[batch.file_paths[i]]

\* The call returned two results that differ, and the pipeline completed its
\* second task before its first.
C33_CompletedOutOfOrder ==
    /\ batch.pc = "returned"
    /\ batch.finished = <<batch.task_ids[2], batch.task_ids[1]>>
    /\ batch.results[1] # batch.results[2]

====
